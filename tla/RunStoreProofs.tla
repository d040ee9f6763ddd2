--------------------------- MODULE RunStoreProofs ---------------------------
(***************************************************************************)
(* Theorems about RunStore, for any requests, crashes and rejected saves.  *)
(*                                                                         *)
(* The invariant that carries them (IInv) says where the outcomes that are *)
(* written down anywhere come from and, as long as only the pipeline       *)
(* writes, what the record, its row, the rows a request still holds and    *)
(* the jobs of the chain say of each other.                                *)
(*                                                                         *)
(* Two more hold whoever writes: every record, row and row held tells its  *)
(* end alike in all its parts (EndsOK), and what a closed record has not   *)
(* told its row yet waits in the chain (RestOK).  The refinement of RunRow *)
(* rests on all three.                                                     *)
(***************************************************************************)
EXTENDS RunStore, SequenceTheorems, WellFoundedInduction, TLAPS

StoreEvents == Events \cup {"stage_progress"}

StoreRecord == [status : Statuses, error : RunErrors,
                terminal : BOOLEAN, events : Seq(StoreEvents)]

SavedRow == [status : Statuses,
             snapshot : [status : Statuses, error : RunErrors],
             completedAt : BOOLEAN]

SaveJob == [object : Nat \ {0}, event : StoreEvents \cup {"none", "delete"},
            next : {"record", "event"}]

RequestState == [step : {"new", "row_read", "answered", "cancelling", "refused",
                         "deleted", "cancelled", "lost"},
                 row : SavedRow \cup {NoRow}, object : Nat]

TypeOK ==
  /\ heap \in Seq(StoreRecord)
  /\ entry \in 0..Len(heap)
  /\ pipe \in {"none", "text", "render", "completed", "failed", "stopped", "lost"}
  /\ chain \in Seq(SaveJob)
  /\ row \in SavedRow \cup {NoRow}
  /\ rows \in Seq(StoreEvents \cup {Absent})
  /\ request \in [Requests -> RequestState]
  /\ restarts \in Nat /\ failures \in Nat

\* What the jobs and the suspended requests point at is there.
PointersOK ==
  /\ \A i \in DOMAIN chain :
       /\ chain[i].object <= Len(heap)
       /\ chain[i].next = "event" => chain[i].event \in StoreEvents
  /\ \A q \in Requests : request[q].step = "cancelling" =>
       Kind[q] = "cancel" /\ request[q].object \in 1..Len(heap)
  /\ pipe \in {"text", "render"} => heap # <<>>

\* Without a record in memory there is no work and nothing to load.
NothingYet ==
  /\ pipe = "none" => heap = <<>>
  /\ heap = <<>> =>
       /\ chain = <<>> /\ row = NoRow
       /\ \A q \in Requests : request[q].step # "row_read"

\* The status or event s has been earned.
Told(s) ==
  /\ s = "completed" => pipe = "completed"
  /\ s = "cancelled" => CancelDone

RowTold(r) == r # NoRow => Told(r.status) /\ Told(r.snapshot.status)

EveryOutcomeTold ==
  /\ \A o \in DOMAIN heap :
       /\ Told(heap[o].status)
       /\ \A i \in DOMAIN heap[o].events : Told(heap[o].events[i])
  /\ \A i \in DOMAIN chain : Told(chain[i].event)
  /\ RowTold(row)
  /\ \A i \in DOMAIN rows : Told(rows[i])
  /\ \A q \in Requests : RowTold(request[q].row)

\* A record tells its end once, and the same in status and events.
RecordAgrees(rec) ==
  IF rec.terminal
  THEN /\ rec.status \in TerminalEvents
       /\ \A i \in DOMAIN rec.events :
            isTerminalRunEvent(rec.events[i]) => rec.events[i] = rec.status
  ELSE /\ isActiveStatus(rec.status)
       /\ \A i \in DOMAIN rec.events : ~isTerminalRunEvent(rec.events[i])

\* A row is of one piece, and ended only if the record ended, and so.
RowAgrees(r) ==
  /\ r.snapshot.status = r.status
  /\ r.completedAt = (r.status \in TerminalEvents)
  /\ r.completedAt => heap[1].terminal /\ heap[1].status = r.status

JobAgrees(i) ==
  \/ chain[i].event = "delete"
  \/ /\ chain[i].object = 1
     /\ isTerminalRunEvent(chain[i].event) =>
          /\ heap[1].terminal /\ heap[1].status = chain[i].event
          /\ chain[i].next = "event" =>
               i = 1 /\ row # NoRow /\ row.status = chain[i].event

\* While only the pipeline writes.
Single ==
  /\ heap # <<>> => RecordAgrees(heap[1])
  /\ \A o \in DOMAIN heap : o # 1 /\ ~isActiveRun(heap[o]) => heap[1].terminal
  /\ row # NoRow => RowAgrees(row)
  /\ \A q \in Requests :
       request[q].step = "row_read" /\ request[q].row # NoRow =>
         RowAgrees(request[q].row)
  /\ \A i \in DOMAIN rows :
       isTerminalRunEvent(rows[i]) => row # NoRow /\ row.status = rows[i]
  /\ \A i \in DOMAIN chain : JobAgrees(i)
  /\ pipe \in {"text", "render"} => ~heap[1].terminal

\* Deletions are the last jobs, of a run whose pipeline is over.
DeletesLast ==
  \A i \in DOMAIN chain : chain[i].event = "delete" =>
    /\ pipe \notin {"none", "text", "render"}
    /\ \A j \in DOMAIN chain : i <= j => chain[j].event = "delete"

\* The row lags behind the record only while a save of it is waiting.
RowCatchesUp ==
  restarts = 0 /\ failures = 0 /\ row # NoRow =>
    \/ /\ row.status = heap[1].status
       /\ row.snapshot.status = heap[1].status
       /\ row.completedAt = heap[1].terminal
    \/ \E i \in DOMAIN chain : chain[i].next = "record" /\ chain[i].event # "delete"

IInv ==
  /\ TypeOK /\ PointersOK /\ NothingYet /\ EveryOutcomeTold
  /\ OneWriter => Single /\ DeletesLast /\ RowCatchesUp

-----------------------------------------------------------------------------
(***************************************************************************)
(* Induction, on sets of numbers.                                          *)
(***************************************************************************)
LEMMA LeastExists ==
  ASSUME NEW T \in SUBSET Nat, T # {}
  PROVE  \E x \in T : \A y \in T : x <= y
<1>1. PICK x \in T : \A y \in T : ~(<<y, x>> \in OpToRel(<, Nat))
  BY NatLessThanWellFounded, WFMin
<1>2. \A y \in T : ~(y < x)
  BY <1>1 DEF OpToRel
<1> QED
  BY <1>2

LEMMA GreatestExists ==
  ASSUME NEW n \in Nat, NEW T \in SUBSET (0..n), T # {}
  PROVE  \E x \in T : \A y \in T : y <= x
<1> DEFINE Mirror == {n - y : y \in T}
<1>0. \A y \in T : y \in Nat /\ n - y \in Nat /\ n - (n - y) = y
  OBVIOUS
<1>1. Mirror \in SUBSET Nat /\ Mirror # {}
  BY <1>0, Zenon
<1>2. PICK z \in Mirror : \A y \in Mirror : z <= y
  BY <1>1, LeastExists
<1>3. PICK x \in T : z = n - x
  BY <1>2
<1>4. \A y \in T : n - x <= n - y
  BY <1>2, <1>3
<1> QED
  BY <1>4

\* A set that holds 0, and n + 1 when it holds n < m, holds 0..m.
LEMMA SetInduction ==
  ASSUME NEW m \in Nat, NEW T, 0 \in T,
         \A n \in 0..m : n # m /\ n \in T => n + 1 \in T
  PROVE  0..m \subseteq T
<1> DEFINE Missing == {n \in 0..m : n \notin T}
<1>1. SUFFICES ASSUME Missing # {} PROVE FALSE
  OBVIOUS
<1>2. Missing \in SUBSET Nat
  OBVIOUS
<1>3. PICK x \in Missing : \A y \in Missing : x <= y
  BY <1>1, <1>2, LeastExists
<1>4. x # 0 /\ x - 1 \in 0..m /\ x - 1 # m
  BY <1>3
<1>5. x - 1 \in T
  BY <1>3, <1>4
<1> QED
  BY <1>3, <1>4, <1>5

LEMMA NextNumber ==
  ASSUME NEW m \in Nat, NEW n \in 0..m, n # m
  PROVE  n + 1 \in 1..m /\ n + 1 \in 0..m /\ n + 1 # 0 /\ (n + 1) - 1 = n
OBVIOUS

-----------------------------------------------------------------------------
(***************************************************************************)
(* The operators of the tables.                                            *)
(***************************************************************************)
\* The events read back are event rows that are there.
LEMMA EventsOf ==
  ASSUME NEW S, NEW evs \in Seq(S \union {Absent}), Absent \notin S
  PROVE  /\ eventsOf(evs) \in Seq(S)
         /\ \A i \in 1..Len(eventsOf(evs)) : \E j \in 1..Len(evs) : eventsOf(evs)[i] = evs[j]
<1> DEFINE Step(f, n) == IF n = 0 THEN <<>>
        ELSE IF evs[n] = Absent THEN f[n - 1]
        ELSE Append(f[n - 1], evs[n])
        Keeps(f, m) == f = [n \in 0..m |-> Step(f, n)]
        Solved == {k \in 0..Len(evs) : \E f : Keeps(f, k)}
<1>0. Len(evs) \in Nat /\ evs \in [1..Len(evs) -> S \union {Absent}]
  OBVIOUS
<1>1. 0 \in Solved
  <2>1. Keeps([n \in 0..0 |-> <<>>], 0)
    OBVIOUS
  <2> HIDE DEF Keeps
  <2>2. 0 \in 0..Len(evs)
    BY <1>0
  <2> QED BY <2>1, <2>2
<1>2. \A n \in 0..Len(evs) : n # Len(evs) /\ n \in Solved => n + 1 \in Solved
  <2> SUFFICES ASSUME NEW n \in 0..Len(evs), n # Len(evs), n \in Solved PROVE n + 1 \in Solved
    OBVIOUS
  <2>1. PICK f : Keeps(f, n)
    OBVIOUS
  <2> HIDE DEF Solved
  <2> DEFINE g == [k \in 0..(n+1) |-> IF k = n + 1 THEN Step(f, k) ELSE f[k]]
  <2>2. n \in Nat /\ \A k \in 0..(n+1) : k # n + 1 => k \in 0..n /\ (k # 0 => k - 1 \in 0..n)
    OBVIOUS
  <2>3. ASSUME NEW k \in 0..(n+1) PROVE g[k] = Step(g, k)
    <3>1. CASE k = 0
      BY <2>1, <2>2, <3>1
    <3>2. CASE k # 0
      <4>1. k - 1 \in 0..(n+1) /\ k - 1 # n + 1 /\ g[k-1] = f[k-1]
        BY <3>2
      <4>2. g[k] = Step(f, k)
        BY <2>1, <2>2, <3>2
      <4>3. Step(f, k) = Step(g, k)
        BY <4>1, <3>2
      <4> QED BY <4>2, <4>3
    <3> QED BY <3>1, <3>2
  <2>4. Keeps(g, n + 1)
    <3> DEFINE h == [k \in 0..(n+1) |-> Step(g, k)]
    <3>1. g = h
      <4> HIDE DEF Step
      <4> QED BY <2>3
    <3> QED BY <3>1
  <2>5. n + 1 \in 0..Len(evs)
    BY <1>0, NextNumber
  <2> HIDE DEF g, Keeps
  <2> QED BY <2>4, <2>5 DEF Solved
<1>3. Len(evs) \in Solved
  <2> HIDE DEF Solved
  <2>1. 0..Len(evs) \subseteq Solved
    BY <1>0, <1>1, <1>2, SetInduction
  <2> QED BY <1>0, <2>1
<1> DEFINE kept == CHOOSE f : Keeps(f, Len(evs))
<1>4. Keeps(kept, Len(evs))
  BY <1>3
<1>5. eventsOf(evs) = kept[Len(evs)]
  BY DEF eventsOf
<1> HIDE DEF kept, Solved
<1> DEFINE Good(s) == s \in Seq(S) /\ \A i \in 1..Len(s) : \E j \in 1..Len(evs) : s[i] = evs[j]
           Done == {k \in 0..Len(evs) : Good(kept[k])}
<1>6. 0 \in Done
  BY <1>0, <1>4
<1>7. \A n \in 0..Len(evs) : n # Len(evs) /\ n \in Done => n + 1 \in Done
  <2> SUFFICES ASSUME NEW n \in 0..Len(evs), n # Len(evs), n \in Done PROVE n + 1 \in Done
    OBVIOUS
  <2>0. n + 1 \in 1..Len(evs) /\ n + 1 # 0 /\ (n + 1) - 1 = n /\ n + 1 \in 0..Len(evs)
    BY <1>0, NextNumber
  <2>1. kept[n + 1] = Step(kept, n + 1)
    <3> HIDE DEF Step
    <3> QED BY <1>4, <2>0
  <2>2. CASE evs[n + 1] = Absent
    BY <2>0, <2>1, <2>2
  <2>3. CASE evs[n + 1] # Absent
    <3>1. kept[n + 1] = Append(kept[n], evs[n + 1])
      BY <2>0, <2>1, <2>3
    <3>2. kept[n] \in Seq(S) /\ evs[n + 1] \in S
      BY <1>0, <2>0, <2>3
    <3> DEFINE s == kept[n]
    <3>3. Append(s, evs[n+1]) \in Seq(S) /\ Len(Append(s, evs[n+1])) = Len(s) + 1
      BY <3>2
    <3>4. \A i \in 1..(Len(s) + 1) : Append(s, evs[n+1])[i] = IF i = Len(s) + 1 THEN evs[n+1] ELSE s[i]
      BY <3>2
    <3>5. Len(s) \in Nat
      BY <3>2
    <3>6. \A i \in 1..(Len(s) + 1) : i # Len(s) + 1 => i \in 1..Len(s)
      BY <3>5
    <3> HIDE DEF s
    <3>7. Good(s)
      BY DEF s
    <3>8. Good(Append(s, evs[n + 1]))
      BY <2>0, <3>3, <3>4, <3>6, <3>7
    <3> QED BY <2>0, <3>1, <3>8 DEF s
  <2> QED BY <2>2, <2>3
<1>8. Len(evs) \in Done
  <2> HIDE DEF Done
  <2>1. 0..Len(evs) \subseteq Done
    BY <1>0, <1>6, <1>7, SetInduction
  <2> QED BY <1>0, <2>1
<1> QED BY <1>5, <1>8

LEMMA AbsentIsNoEvent == Absent \notin StoreEvents
BY DEF Absent, StoreEvents, Events, TerminalEvents

\* What loading a row makes of it.
LEMMA Loaded ==
  ASSUME NEW r \in SavedRow, NEW evs \in Seq(StoreEvents \cup {Absent}),
         NEW mark \in BOOLEAN
  PROVE  LET rec == applyLoadedRows(r, evs, mark)
         IN  /\ rec \in StoreRecord
             /\ rec.status = "failed" \/ rec.status = r.snapshot.status
             /\ \A i \in DOMAIN rec.events :
                  \/ rec.events[i] = "failed"
                  \/ \E j \in DOMAIN evs : rec.events[i] = evs[j]
<1> DEFINE rec == applyLoadedRows(r, evs, mark)
           old == eventsOf(evs)
<1>1. /\ old \in Seq(StoreEvents)
      /\ \A i \in 1..Len(old) : \E j \in 1..Len(evs) : old[i] = evs[j]
  BY EventsOf, AbsentIsNoEvent
<1>2. DOMAIN evs = 1..Len(evs)
  OBVIOUS
<1>3. "failed" \in StoreEvents /\ "failed" \in Statuses /\ "RUN_ERROR" \in RunErrors
  BY DEF StoreEvents, Events, TerminalEvents, Statuses, RunErrors, PipelineErrors
<1>4. /\ r.snapshot.status \in Statuses /\ r.snapshot.error \in RunErrors
      /\ r.completedAt \in BOOLEAN
  BY DEF SavedRow
<1> HIDE DEF old
<1>5. /\ Append(old, "failed") \in Seq(StoreEvents)
      /\ Len(Append(old, "failed")) = Len(old) + 1
      /\ \A i \in 1..(Len(old) + 1) :
           Append(old, "failed")[i] = IF i = Len(old) + 1 THEN "failed" ELSE old[i]
  BY <1>1, <1>3
<1>6. Len(old) \in Nat /\ DOMAIN old = 1..Len(old)
      /\ DOMAIN Append(old, "failed") = 1..(Len(old) + 1)
  BY <1>1, <1>5
<1>7. \A i \in 1..(Len(old) + 1) : i # Len(old) + 1 => i \in 1..Len(old)
  BY <1>6
<1>8. \A i \in DOMAIN Append(old, "failed") :
         \/ Append(old, "failed")[i] = "failed"
         \/ \E j \in DOMAIN evs : Append(old, "failed")[i] = evs[j]
  BY <1>1, <1>2, <1>5, <1>6, <1>7
<1>9. \A i \in DOMAIN old : \E j \in DOMAIN evs : old[i] = evs[j]
  BY <1>1, <1>2, <1>6
<1>10. CASE restoredInterruptedRun(r, mark)
  <2>1. /\ rec.status = "failed" /\ rec.terminal = TRUE
        /\ rec.error \in RunErrors
        /\ rec.events \in {old, Append(old, "failed")}
        /\ rec = [status |-> rec.status, error |-> rec.error,
                  terminal |-> rec.terminal, events |-> rec.events]
    BY <1>3, <1>4, <1>10 DEF applyLoadedRows, old
  <2> HIDE DEF rec
  <2>2. rec \in StoreRecord
    BY <1>1, <1>3, <1>5, <2>1 DEF StoreRecord
  <2> QED
    BY <1>8, <1>9, <2>1, <2>2 DEF rec
<1>11. CASE ~restoredInterruptedRun(r, mark)
  <2>1. /\ rec.status = r.snapshot.status /\ rec.error = r.snapshot.error
        /\ rec.terminal = (r.status \in TerminalEvents \/ r.completedAt)
        /\ rec.events = old
        /\ rec = [status |-> rec.status, error |-> rec.error,
                  terminal |-> rec.terminal, events |-> rec.events]
    BY <1>11 DEF applyLoadedRows, old
  <2> HIDE DEF rec
  <2>2. rec.terminal \in BOOLEAN
    BY <2>1
  <2>3. rec \in StoreRecord
    BY <1>1, <1>4, <2>1, <2>2 DEF StoreRecord
  <2> QED
    BY <1>9, <2>1, <2>3 DEF rec
<1> QED
  BY <1>10, <1>11

\* The row and the event rows of a run only the pipeline has written to.
CoherentRows(r, evs) ==
  /\ r.snapshot.status = r.status
  /\ r.completedAt = (r.status \in TerminalEvents)
  /\ \A j \in DOMAIN evs : isTerminalRunEvent(evs[j]) => evs[j] = r.status

\* After a crash such a run is closed, and agrees with itself.
LEMMA LoadedMarked ==
  ASSUME NEW r \in SavedRow, NEW evs \in Seq(StoreEvents \cup {Absent}),
         CoherentRows(r, evs)
  PROVE  LET rec == applyLoadedRows(r, evs, TRUE)
         IN  rec.terminal /\ RecordAgrees(rec)
             /\ (r.completedAt => rec.status = r.status)
<1> DEFINE rec == applyLoadedRows(r, evs, TRUE)
           old == eventsOf(evs)
<1>1. r.status \in Statuses
  BY DEF SavedRow
<1>2. /\ rec \in StoreRecord
      /\ \A i \in DOMAIN rec.events :
           \/ rec.events[i] = "failed"
           \/ \E j \in DOMAIN evs : rec.events[i] = evs[j]
  BY Loaded
<1>3. CASE isActiveStatus(r.status)
  <2>1. rec.status = "failed" /\ rec.terminal = TRUE
    BY <1>3 DEF applyLoadedRows, restoredInterruptedRun
  <2>2. \A j \in DOMAIN evs : ~isTerminalRunEvent(evs[j])
    BY <1>3 DEF CoherentRows, isActiveStatus, isTerminalRunEvent, TerminalEvents
  <2>3. ~r.completedAt
    BY <1>3 DEF CoherentRows, isActiveStatus, TerminalEvents
  <2> HIDE DEF rec
  <2> QED
    BY <1>2, <2>1, <2>2, <2>3 DEF RecordAgrees, TerminalEvents, isTerminalRunEvent, rec
<1>4. CASE ~isActiveStatus(r.status)
  <2>1. r.status \in TerminalEvents
    BY <1>1, <1>4 DEF Statuses, isActiveStatus
  <2>2. rec.status = r.status /\ rec.terminal = TRUE /\ rec.events = old
    BY <1>4, <2>1 DEF applyLoadedRows, restoredInterruptedRun, CoherentRows
  <2>3. /\ old \in Seq(StoreEvents)
        /\ \A i \in 1..Len(old) : \E j \in 1..Len(evs) : old[i] = evs[j]
    BY EventsOf, AbsentIsNoEvent
  <2>4. DOMAIN evs = 1..Len(evs) /\ DOMAIN old = 1..Len(old)
    BY <2>3
  <2> HIDE DEF rec, old
  <2> QED
    BY <2>1, <2>2, <2>3, <2>4 DEF RecordAgrees, CoherentRows, rec
<1> QED
  BY <1>3, <1>4

\* A request finds such a run inactive only if its row has ended.
LEMMA LoadedInactive ==
  ASSUME NEW r \in SavedRow, NEW evs,
         r.snapshot.status = r.status, r.completedAt = (r.status \in TerminalEvents)
  PROVE  /\ ~restoredInterruptedRun(r, FALSE)
         /\ ~isActiveRun(applyLoadedRows(r, evs, FALSE)) => r.completedAt
<1>1. r.status \in Statuses
  BY DEF SavedRow
<1>2. ~restoredInterruptedRun(r, FALSE)
  BY DEF restoredInterruptedRun, isActiveStatus, TerminalEvents
<1>3. /\ applyLoadedRows(r, evs, FALSE).status = r.status
      /\ applyLoadedRows(r, evs, FALSE).terminal =
           (r.status \in TerminalEvents \/ r.completedAt)
  BY <1>2 DEF applyLoadedRows
<1> QED
  BY <1>1, <1>2, <1>3 DEF isActiveRun, Statuses

\* The status saved is the event being saved, the record's, or an event's.
LEMMA Persisted ==
  ASSUME NEW rec \in StoreRecord, NEW e
  PROVE  LET s == readPersistedStatus(rec, e)
         IN  \/ isTerminalRunEvent(e) /\ s = e
             \/ ~isTerminalRunEvent(e) /\ s = rec.status
             \/ /\ ~isTerminalRunEvent(e) /\ rec.terminal
                /\ \E i \in DOMAIN rec.events :
                     isTerminalRunEvent(rec.events[i]) /\ s = rec.events[i]
<1> DEFINE ends == {i \in DOMAIN rec.events : isTerminalRunEvent(rec.events[i])}
           s == readPersistedStatus(rec, e)
<1>1. rec.events \in Seq(StoreEvents)
  BY DEF StoreRecord
<1>2. /\ Len(rec.events) \in Nat /\ DOMAIN rec.events = 1..Len(rec.events)
  BY <1>1
<1>3. ends \in SUBSET (0..Len(rec.events))
  BY <1>2
<1>4. CASE ~isTerminalRunEvent(e) /\ rec.terminal /\ ends # {}
  <2>1. \E i \in ends : \A j \in ends : j <= i
    <3> HIDE DEF ends
    <3> QED
      BY <1>2, <1>3, <1>4, GreatestExists
  <2> DEFINE last == CHOOSE i \in ends : \A j \in ends : j <= i
  <2>2. last \in ends
    <3> HIDE DEF ends
    <3> QED
      BY <2>1
  <2>3. s = rec.events[last]
    BY <1>4 DEF readPersistedStatus
  <2> HIDE DEF last, s
  <2> QED
    BY <1>4, <2>2, <2>3 DEF s
<1>5. CASE isTerminalRunEvent(e)
  BY <1>5 DEF readPersistedStatus
<1>6. CASE ~isTerminalRunEvent(e) /\ ~(rec.terminal /\ ends # {})
  BY <1>6 DEF readPersistedStatus
<1> QED
  BY <1>4, <1>5, <1>6

\* The row a save writes.
LEMMA Upserted ==
  ASSUME NEW rec \in StoreRecord, NEW e, row \in SavedRow \cup {NoRow}
  PROVE  LET new == upsertRecord(rec, e)
         IN  /\ new \in SavedRow
             /\ new.status = readPersistedStatus(rec, e)
             /\ new.snapshot.status = rec.status
             /\ new.completedAt =
                  (rec.terminal \/ isTerminalRunEvent(e) \/ Ended(row))
<1> DEFINE s == readPersistedStatus(rec, e)
<1>1. /\ rec.status \in Statuses /\ rec.error \in RunErrors
      /\ rec.terminal \in BOOLEAN
      /\ rec.events \in Seq(StoreEvents)
  BY DEF StoreRecord
<1>2. \A x : isTerminalRunEvent(x) => x \in Statuses
  BY DEF isTerminalRunEvent, Statuses
<1>3. s \in Statuses
  BY <1>1, <1>2, Persisted, Zenon
<1>4. (rec.terminal \/ isTerminalRunEvent(e) \/ Ended(row)) \in BOOLEAN
  OBVIOUS
<1> HIDE DEF s
<1>5. upsertRecord(rec, e) =
        [status |-> s,
         snapshot |-> [status |-> rec.status, error |-> rec.error],
         completedAt |-> rec.terminal \/ isTerminalRunEvent(e) \/ Ended(row)]
  BY DEF upsertRecord, s
<1> QED
  BY <1>1, <1>3, <1>4, <1>5 DEF SavedRow, s

LEMMA RowsDiffer == NoRow \notin SavedRow
BY DEF NoRow, SavedRow, Statuses, TerminalEvents

\* The event rows after an upsert.
LEMMA UpsertedEvent ==
  ASSUME NEW n \in Nat, NEW e \in StoreEvents,
         rows \in Seq(StoreEvents \cup {Absent})
  PROVE  /\ upsertEvent(n, e) \in Seq(StoreEvents \cup {Absent})
         /\ \A i \in DOMAIN upsertEvent(n, e) :
              \/ upsertEvent(n, e)[i] \in {e, Absent}
              \/ i \in DOMAIN rows /\ upsertEvent(n, e)[i] = rows[i]
<1> DEFINE m == IF n > Len(rows) THEN n ELSE Len(rows)
<1>1. Len(rows) \in Nat /\ m \in Nat /\ DOMAIN rows = 1..Len(rows)
      /\ rows \in [1..Len(rows) -> StoreEvents \cup {Absent}]
  OBVIOUS
<1>2. upsertEvent(n, e) = [i \in 1..m |->
        IF i = n THEN e ELSE IF i <= Len(rows) THEN rows[i] ELSE Absent]
  BY DEF upsertEvent
<1> HIDE DEF m
<1>3. \A i \in 1..m : i <= Len(rows) => i \in 1..Len(rows)
  BY <1>1
<1>4. upsertEvent(n, e) \in [1..m -> StoreEvents \cup {Absent}]
  BY <1>1, <1>2, <1>3
<1>5. upsertEvent(n, e) \in Seq(StoreEvents \cup {Absent})
  BY <1>1, <1>4, SeqDef
<1> QED
  BY <1>1, <1>2, <1>3, <1>5

-----------------------------------------------------------------------------
(***************************************************************************)
(* The operations on a record.                                             *)
(***************************************************************************)
LEMMA EventNames ==
  /\ {"queued", "stage_started", "stage_progress", "artifact_ready", "completed",
      "failed", "cancelled"} \subseteq StoreEvents
  /\ \A e \in {"queued", "stage_started", "stage_progress", "artifact_ready"} :
       ~isTerminalRunEvent(e) /\ e # "run_action"
  /\ \A e \in TerminalEvents : isTerminalRunEvent(e) /\ e # "run_action"
  /\ {"completed", "failed", "cancelled"} = TerminalEvents
BY DEF StoreEvents, Events, TerminalEvents, isTerminalRunEvent

\* Two events appended to a log.
LEMMA TwoAppended ==
  ASSUME NEW evs \in Seq(StoreEvents), NEW a \in StoreEvents, NEW b \in StoreEvents
  PROVE  LET new == Append(Append(evs, a), b)
         IN  /\ new \in Seq(StoreEvents)
             /\ Len(new) = Len(evs) + 2 /\ Len(evs) \in Nat
             /\ \A i \in DOMAIN new :
                  new[i] \in {a, b} \/ (i \in DOMAIN evs /\ new[i] = evs[i])
OBVIOUS

LEMMA EmittedOpen ==
  ASSUME NEW rec \in StoreRecord, ~rec.terminal, NEW e \in StoreEvents
  PROVE  LET new == emitEvent(rec, e)
         IN  /\ new \in StoreRecord
             /\ new.status = rec.status
             /\ new.terminal = isTerminalRunEvent(e)
             /\ new.events = Append(rec.events, e)
<1>1. emitEvent(rec, e) =
        [rec EXCEPT !.events = Append(rec.events, e),
                    !.terminal = rec.terminal \/ isTerminalRunEvent(e)]
  BY DEF emitEvent
<1>2. /\ rec.events \in Seq(StoreEvents) /\ rec.terminal = FALSE
      /\ Append(rec.events, e) \in Seq(StoreEvents)
      /\ isTerminalRunEvent(e) \in BOOLEAN
  BY DEF StoreRecord, isTerminalRunEvent
<1> DEFINE evs == Append(rec.events, e)
           te == isTerminalRunEvent(e)
<1>3. emitEvent(rec, e) = [rec EXCEPT !.events = evs, !.terminal = te]
  BY <1>1, <1>2
<1>4. evs \in Seq(StoreEvents) /\ te \in BOOLEAN
  BY <1>2
<1> HIDE DEF evs, te
<1>5. /\ emitEvent(rec, e) \in StoreRecord
      /\ emitEvent(rec, e).status = rec.status
      /\ emitEvent(rec, e).terminal = te
      /\ emitEvent(rec, e).events = evs
  BY <1>3, <1>4 DEF StoreRecord
<1> QED
  BY <1>5 DEF evs, te

LEMMA StatusNames ==
  /\ {"running", "completed", "failed", "cancelled", "queued"} \subseteq Statuses
  /\ {"none", "RUN_ERROR", "RUN_CANCELLED"} \subseteq RunErrors
BY DEF Statuses, TerminalEvents, RunErrors, PipelineErrors

\* The pipeline's three bursts, on an open record.
LEMMA Opened ==
  ASSUME NEW rec \in StoreRecord, ~rec.terminal
  PROVE  LET new == opened(rec)
         IN  /\ new \in StoreRecord
             /\ new.status = "running" /\ new.terminal = FALSE
             /\ new.events = Append(Append(rec.events, "stage_started"),
                                    "stage_progress")
<1> DEFINE mid == [rec EXCEPT !.status = "running"]
           one == emitEvent(mid, "stage_started")
<1>1. /\ mid \in StoreRecord /\ mid.status = "running" /\ ~mid.terminal
      /\ mid.events = rec.events
  BY StatusNames DEF StoreRecord
<1> HIDE DEF mid
<1>2. /\ one \in StoreRecord /\ one.status = "running" /\ one.terminal = FALSE
      /\ one.events = Append(rec.events, "stage_started")
  BY <1>1, EmittedOpen, EventNames
<1> HIDE DEF one
<1>3. opened(rec) = emitEvent(one, "stage_progress")
  BY DEF opened, openStage, one, mid
<1>4. "stage_progress" \in StoreEvents /\ isTerminalRunEvent("stage_progress") = FALSE
  BY EventNames DEF isTerminalRunEvent
<1> DEFINE new == emitEvent(one, "stage_progress")
<1>5. /\ new \in StoreRecord /\ new.status = one.status
      /\ new.terminal = isTerminalRunEvent("stage_progress")
      /\ new.events = Append(one.events, "stage_progress")
  BY <1>2, <1>4, EmittedOpen
<1> HIDE DEF new
<1>6. opened(rec) = new
  BY <1>3 DEF new
<1> QED
  BY <1>2, <1>4, <1>5, <1>6

LEMMA Completed ==
  ASSUME NEW rec \in StoreRecord, ~rec.terminal
  PROVE  LET new == completeRun(emitEvent(rec, "artifact_ready"))
         IN  /\ new \in StoreRecord
             /\ new.status = "completed" /\ new.terminal = TRUE
             /\ new.events = Append(Append(rec.events, "artifact_ready"), "completed")
<1> DEFINE one == emitEvent(rec, "artifact_ready")
           mid == [one EXCEPT !.status = "completed", !.error = "none"]
<1>1. /\ one \in StoreRecord /\ one.terminal = FALSE
      /\ one.events = Append(rec.events, "artifact_ready")
  BY EmittedOpen, EventNames
<1> HIDE DEF one
<1>2. /\ mid \in StoreRecord /\ mid.status = "completed" /\ ~mid.terminal
      /\ mid.events = one.events
  BY <1>1, StatusNames DEF StoreRecord
<1> HIDE DEF mid
<1>3. completeRun(one) = emitEvent(mid, "completed")
  BY DEF completeRun, mid
<1>4. "completed" \in StoreEvents /\ isTerminalRunEvent("completed") = TRUE
  BY EventNames DEF isTerminalRunEvent
<1> DEFINE new == emitEvent(mid, "completed")
<1>5. /\ new \in StoreRecord /\ new.status = mid.status
      /\ new.terminal = isTerminalRunEvent("completed")
      /\ new.events = Append(mid.events, "completed")
  BY <1>2, <1>4, EmittedOpen
<1> HIDE DEF new
<1>6. completeRun(one) = new
  BY <1>3 DEF new
<1> QED
  BY <1>1, <1>2, <1>4, <1>5, <1>6 DEF one

LEMMA Failed ==
  ASSUME NEW rec \in StoreRecord, ~rec.terminal
  PROVE  LET new == failRun(rec, "RUN_ERROR")
         IN  /\ new \in StoreRecord
             /\ new.status = "failed" /\ new.terminal = TRUE
             /\ new.events = Append(rec.events, "failed")
<1> DEFINE mid == [rec EXCEPT !.status = "failed", !.error = "RUN_ERROR"]
<1>1. /\ mid \in StoreRecord /\ mid.status = "failed" /\ ~mid.terminal
      /\ mid.events = rec.events
  BY StatusNames DEF StoreRecord
<1> HIDE DEF mid
<1>2. failRun(rec, "RUN_ERROR") = emitEvent(mid, "failed")
  BY DEF failRun, mid
<1> QED
  BY <1>1, <1>2, EmittedOpen, EventNames

\* A cancelled record tells of a cancellation or of an event it had.
LEMMA Cancelled ==
  ASSUME NEW rec \in StoreRecord
  PROVE  LET new == cancelRunRecord(rec)
         IN  /\ new \in StoreRecord
             /\ \/ new.status = "cancelled"
                \/ \E i \in DOMAIN rec.events : new.status = rec.events[i]
             /\ \A i \in DOMAIN new.events :
                  \/ new.events[i] = "cancelled"
                  \/ i \in DOMAIN rec.events /\ new.events[i] = rec.events[i]
<1> DEFINE mid == [rec EXCEPT !.status = "cancelled", !.error = "RUN_CANCELLED"]
           new == cancelRunRecord(rec)
<1>1. rec.terminal \in BOOLEAN /\ rec.events \in Seq(StoreEvents)
  BY DEF StoreRecord
<1>2. /\ mid \in StoreRecord /\ mid.status = "cancelled"
      /\ mid.terminal = rec.terminal /\ mid.events = rec.events
  BY StatusNames DEF StoreRecord
<1>3. new = emitEvent(mid, "cancelled")
  BY DEF cancelRunRecord
<1>4. /\ "cancelled" \in Statuses /\ "RUN_CANCELLED" \in RunErrors
      /\ "cancelled" \in StoreEvents /\ isTerminalRunEvent("cancelled")
      /\ "cancelled" # "run_action"
  BY DEF Statuses, TerminalEvents, RunErrors, StoreEvents, Events, isTerminalRunEvent
<1>5. /\ Len(rec.events) \in Nat /\ DOMAIN rec.events = 1..Len(rec.events)
  BY <1>1
<1> HIDE DEF mid
<1>6. CASE rec.terminal = FALSE
  <2>1. /\ new \in StoreRecord /\ new.status = "cancelled"
        /\ new.events = Append(rec.events, "cancelled")
    BY <1>2, <1>3, <1>4, <1>6, EmittedOpen
  <2>2. \A i \in DOMAIN Append(rec.events, "cancelled") :
             \/ Append(rec.events, "cancelled")[i] = "cancelled"
             \/ /\ i \in DOMAIN rec.events
                /\ Append(rec.events, "cancelled")[i] = rec.events[i]
    BY <1>1, <1>4
  <2> HIDE DEF new
  <2> QED
    BY <2>1, <2>2 DEF new
<1>7. CASE rec.terminal = TRUE
  <2>1. new = restoreRecordedTerminalStatus(mid)
    BY <1>2, <1>3, <1>4, <1>7 DEF emitEvent
  <2>2. CASE ~HasTerminalEvent(rec.events)
    <3>1. new = mid
      BY <1>2, <2>1, <2>2 DEF restoreRecordedTerminalStatus
    <3> HIDE DEF new
    <3> QED
      BY <1>2, <3>1 DEF new
  <2>3. CASE HasTerminalEvent(rec.events)
    <3> DEFINE first == FirstTerminal(rec.events)
               ends == {i \in DOMAIN rec.events : isTerminalRunEvent(rec.events[i])}
    <3>1. ends # {} /\ ends \in SUBSET Nat
      BY <1>5, <2>3 DEF HasTerminalEvent
    <3>2. PICK x \in ends : \A y \in ends : x <= y
      <4> HIDE DEF ends
      <4> QED
        BY <3>1, LeastExists
    <3>3. /\ x \in DOMAIN rec.events /\ isTerminalRunEvent(rec.events[x])
          /\ \A j \in DOMAIN rec.events : j < x => ~isTerminalRunEvent(rec.events[j])
      BY <1>5, <3>2
    <3>4. first \in DOMAIN rec.events /\ isTerminalRunEvent(rec.events[first])
      BY <3>3 DEF FirstTerminal
    <3> HIDE DEF first
    <3>5. new = [mid EXCEPT !.status = rec.events[first]]
      BY <1>2, <2>1, <2>3 DEF restoreRecordedTerminalStatus, first
    <3>6. rec.events[first] \in Statuses
      BY <3>4 DEF isTerminalRunEvent, Statuses
    <3>7. /\ new \in StoreRecord /\ new.status = rec.events[first]
          /\ new.events = rec.events
      BY <1>2, <3>5, <3>6 DEF StoreRecord
    <3> HIDE DEF new
    <3> QED
      BY <3>4, <3>7 DEF new
  <2> QED
    BY <2>2, <2>3
<1> QED
  BY <1>1, <1>6, <1>7

-----------------------------------------------------------------------------
(***************************************************************************)
(* The invariant, action by action: first the saves.                       *)
(***************************************************************************)
LEMMA InitInv == Init => IInv
<1> SUFFICES ASSUME Init PROVE IInv
  OBVIOUS
<1> USE DEF Init
<1>1. /\ heap \in Seq(StoreRecord) /\ chain \in Seq(SaveJob)
      /\ rows \in Seq(StoreEvents \cup {Absent})
      /\ Len(heap) = 0 /\ DOMAIN heap = {} /\ DOMAIN chain = {} /\ DOMAIN rows = {}
  OBVIOUS
<1>2. request \in [Requests -> RequestState]
  BY DEF RequestState
<1>3. TypeOK
  BY <1>1, <1>2 DEF TypeOK
<1>4. PointersOK /\ NothingYet
  BY <1>1 DEF PointersOK, NothingYet
<1>5. EveryOutcomeTold
  BY <1>1 DEF EveryOutcomeTold, RowTold
<1>6. Single /\ DeletesLast /\ RowCatchesUp
  BY <1>1 DEF Single, DeletesLast, RowCatchesUp
<1> QED
  BY <1>3, <1>4, <1>5, <1>6 DEF IInv

\* Told and RowTold in the next state, of a value at hand.
ToldNext(s) ==
  /\ s = "completed" => pipe' = "completed"
  /\ s = "cancelled" => CancelDone'

RowToldNext(r) == r # NoRow => ToldNext(r.status) /\ ToldNext(r.snapshot.status)

LEMMA OutcomesTold ==
  ASSUME \A o \in DOMAIN heap' :
           /\ ToldNext(heap'[o].status)
           /\ \A i \in DOMAIN heap'[o].events : ToldNext(heap'[o].events[i]),
         \A i \in DOMAIN chain' : ToldNext(chain'[i].event),
         RowToldNext(row'),
         \A i \in DOMAIN rows' : ToldNext(rows'[i]),
         \A q \in Requests : RowToldNext(request'[q].row)
  PROVE  EveryOutcomeTold'
BY DEF EveryOutcomeTold, Told, RowTold, ToldNext, RowToldNext

\* What is told stays told.
LEMMA ToldStays ==
  ASSUME pipe = "completed" => pipe' = "completed",
         CancelDone => CancelDone'
  PROVE  /\ \A s : Told(s) => ToldNext(s)
         /\ \A r : RowTold(r) => RowToldNext(r)
BY DEF Told, ToldNext, RowTold, RowToldNext

LEMMA ToldUnchanged ==
  ASSUME UNCHANGED <<pipe, request>>
  PROVE  /\ \A s : Told(s) => ToldNext(s)
         /\ \A r : RowTold(r) => RowToldNext(r)
         /\ OneWriter' = OneWriter
<1>1. CancelDone' = CancelDone /\ OneWriter' = OneWriter
  BY DEF CancelDone, OneWriter
<1> QED
  BY <1>1, ToldStays

\* The chain has lost its first d jobs, and its head may have gone on to its
\* second query.
Advances(d) ==
  /\ chain' \in Seq(SaveJob)
  /\ Len(chain') = Len(chain) - d
  /\ \A i \in 1..Len(chain') :
       /\ i + d \in 1..Len(chain)
       /\ chain'[i].object = chain[i + d].object
       /\ chain'[i].event = chain[i + d].event
       /\ \/ chain'[i].next = chain[i + d].next
          \/ d = 0 /\ i = 1 /\ chain[1].event \in StoreEvents

LEMMA TailAdvances ==
  ASSUME chain \in Seq(SaveJob), chain # <<>>, chain' = Tail(chain)
  PROVE  /\ Advances(1)
         /\ \A i \in 1..Len(chain') : chain'[i] = chain[i + 1]
<1>1. /\ Len(chain) \in Nat /\ Len(chain') = Len(chain) - 1
      /\ chain' \in Seq(SaveJob)
      /\ \A i \in 1..Len(chain') : chain'[i] = chain[i + 1]
  OBVIOUS
<1>2. \A i \in 1..Len(chain') : i + 1 \in 1..Len(chain)
  BY <1>1
<1> QED
  BY <1>1, <1>2 DEF Advances

LEMMA HeadJob ==
  ASSUME TypeOK, PointersOK, chain # <<>>
  PROVE  /\ 1 \in 1..Len(chain) /\ DOMAIN chain = 1..Len(chain)
         /\ Head(chain) = chain[1] /\ chain[1] \in SaveJob
         /\ chain[1].object \in 1..Len(heap)
         /\ heap[chain[1].object] \in StoreRecord
<1>1. /\ chain \in Seq(SaveJob) /\ heap \in Seq(StoreRecord)
      /\ Len(heap) \in Nat
  BY DEF TypeOK
<1>2. /\ 1 \in 1..Len(chain) /\ DOMAIN chain = 1..Len(chain)
      /\ Head(chain) = chain[1] /\ chain[1] \in SaveJob
  BY <1>1
<1>3. chain[1].object \in Nat \ {0} /\ chain[1].object <= Len(heap)
  BY <1>2 DEF SaveJob, PointersOK
<1> QED
  BY <1>1, <1>2, <1>3

\* What every save query keeps, whatever it does to the tables.
LEMMA SaveKeeps ==
  ASSUME IInv, NEW d \in {0, 1}, chain # <<>>, Advances(d),
         UNCHANGED <<heap, entry, pipe, request, restarts>>,
         row' \in SavedRow \cup {NoRow},
         rows' \in Seq(StoreEvents \cup {Absent}),
         failures' \in Nat,
         RowToldNext(row'), \A i \in DOMAIN rows' : ToldNext(rows'[i])
  PROVE  /\ TypeOK' /\ PointersOK' /\ NothingYet' /\ EveryOutcomeTold'
         /\ OneWriter' = OneWriter
         /\ OneWriter' => Single /\ DeletesLast /\ RowCatchesUp /\ DeletesLast'
<1>1. TypeOK /\ PointersOK /\ NothingYet /\ EveryOutcomeTold
  BY DEF IInv
<1>2. TypeOK'
  BY <1>1 DEF TypeOK, Advances
<1>3. /\ DOMAIN chain = 1..Len(chain) /\ DOMAIN chain' = 1..Len(chain')
      /\ Len(chain) \in Nat /\ Len(chain') \in Nat
  BY <1>1, <1>2 DEF TypeOK
<1>4. PointersOK'
  <2>1. ASSUME NEW i \in DOMAIN chain'
        PROVE  /\ chain'[i].object <= Len(heap)
               /\ chain'[i].next = "event" => chain'[i].event \in StoreEvents
    <3>1. i + d \in DOMAIN chain
      BY <1>3 DEF Advances
    <3>2. /\ chain[i + d].object <= Len(heap)
          /\ chain[i + d].next = "event" => chain[i + d].event \in StoreEvents
      BY <1>1, <3>1 DEF PointersOK
    <3>3. /\ chain'[i].object = chain[i + d].object
          /\ chain'[i].event = chain[i + d].event
          /\ \/ chain'[i].next = chain[i + d].next
             \/ d = 0 /\ i = 1 /\ chain[1].event \in StoreEvents
      BY <1>3 DEF Advances
    <3>4. d = 0 /\ i = 1 => i + d = 1
      OBVIOUS
    <3> QED
      BY <3>2, <3>3, <3>4
  <2> QED
    BY <1>1, <2>1 DEF PointersOK
<1>5. NothingYet'
  <2>1. heap # <<>>
    BY <1>1 DEF NothingYet
  <2> QED
    BY <1>1, <2>1 DEF NothingYet
<1>6. /\ \A s : Told(s) => ToldNext(s)
      /\ \A r : RowTold(r) => RowToldNext(r)
      /\ OneWriter' = OneWriter
  BY ToldUnchanged
<1>7. EveryOutcomeTold'
  <2>1. \A i \in DOMAIN chain' : ToldNext(chain'[i].event)
    BY <1>1, <1>3, <1>6 DEF EveryOutcomeTold, Advances
  <2>2. \A q \in Requests : RowToldNext(request'[q].row)
    BY <1>1, <1>6 DEF EveryOutcomeTold
  <2>3. \A o \in DOMAIN heap' :
          /\ ToldNext(heap'[o].status)
          /\ \A i \in DOMAIN heap'[o].events : ToldNext(heap'[o].events[i])
    BY <1>1, <1>6 DEF EveryOutcomeTold
  <2> QED
    BY <2>1, <2>2, <2>3, OutcomesTold
<1>8. ASSUME OneWriter' PROVE DeletesLast'
  <2>1. DeletesLast
    BY <1>6, <1>8 DEF IInv
  <2>2. ASSUME NEW i \in DOMAIN chain', chain'[i].event = "delete"
        PROVE  /\ pipe' \notin {"none", "text", "render"}
               /\ \A j \in DOMAIN chain' : i <= j => chain'[j].event = "delete"
    <3>1. i + d \in DOMAIN chain /\ chain[i + d].event = "delete"
      BY <1>3, <2>2 DEF Advances
    <3>2. /\ pipe \notin {"none", "text", "render"}
          /\ \A j \in DOMAIN chain : i + d <= j => chain[j].event = "delete"
      BY <2>1, <3>1 DEF DeletesLast
    <3>3. ASSUME NEW j \in DOMAIN chain', i <= j PROVE chain'[j].event = "delete"
      <4>1. j + d \in DOMAIN chain /\ i + d <= j + d
        BY <1>3, <3>3 DEF Advances
      <4> QED
        BY <1>3, <3>2, <4>1 DEF Advances
    <3> QED
      BY <3>2, <3>3
  <2> QED
    BY <2>2 DEF DeletesLast
<1> QED
  BY <1>2, <1>4, <1>5, <1>6, <1>7, <1>8 DEF IInv

\* While only the pipeline writes, a save makes the row agree with the record.
LEMMA SaveAgrees ==
  ASSUME TypeOK, PointersOK, chain # <<>>, Single,
         chain[1].event # "delete",
         row' = upsertRecord(heap[chain[1].object], chain[1].event)
  PROVE  /\ heap # <<>> /\ chain[1].object = 1 /\ RecordAgrees(heap[1])
         /\ row' \in SavedRow
         /\ row'.status = heap[1].status /\ row'.snapshot.status = heap[1].status
         /\ row'.completedAt = heap[1].terminal
         /\ heap[1].terminal = (heap[1].status \in TerminalEvents)
<1> DEFINE e == chain[1].event
           rec == heap[1]
<1>1. 1 \in DOMAIN chain /\ chain[1].object \in 1..Len(heap)
  BY HeadJob
<1>2. /\ chain[1].object = 1 /\ heap # <<>>
      /\ isTerminalRunEvent(e) => rec.terminal /\ rec.status = e
  BY <1>1 DEF Single, JobAgrees, TypeOK
<1>3. rec \in StoreRecord /\ rec.terminal \in BOOLEAN
  BY <1>2, HeadJob DEF StoreRecord
<1>4. RecordAgrees(rec)
  BY <1>2 DEF Single
<1>5. row \in SavedRow \cup {NoRow}
  BY DEF TypeOK
<1> HIDE DEF rec, e
<1>6. row' = upsertRecord(rec, e)
  BY <1>2 DEF rec, e
<1>7. /\ row' \in SavedRow
      /\ row'.status = readPersistedStatus(rec, e)
      /\ row'.snapshot.status = rec.status
      /\ row'.completedAt = (rec.terminal \/ isTerminalRunEvent(e) \/ Ended(row))
  BY <1>3, <1>5, <1>6, Upserted
<1>8. readPersistedStatus(rec, e) = rec.status
  <2>1. \A i \in DOMAIN rec.events :
          rec.terminal /\ isTerminalRunEvent(rec.events[i]) => rec.events[i] = rec.status
    BY <1>4 DEF RecordAgrees
  <2> QED
    BY <1>2, <1>3, <2>1, Persisted
<1>9. Ended(row) => rec.terminal
  BY DEF Ended, Single, RowAgrees, rec
<1>10. rec.terminal = (rec.status \in TerminalEvents)
  BY <1>3, <1>4 DEF RecordAgrees, isActiveStatus, TerminalEvents
<1> QED
  BY <1>2, <1>3, <1>4, <1>7, <1>8, <1>9, <1>10 DEF rec, e

LEMMA SaveRecordInv == ASSUME IInv, SaveRecord PROVE IInv'
<1> DEFINE e == chain[1].event
           rec == heap[chain[1].object]
<1>1. /\ TypeOK /\ PointersOK /\ NothingYet /\ EveryOutcomeTold
      /\ OneWriter => Single /\ DeletesLast /\ RowCatchesUp
  BY DEF IInv
<1>2. /\ chain # <<>> /\ chain[1].next = "record" /\ e # "delete"
      /\ row' = upsertRecord(rec, e)
      /\ chain' = IF e = "none" THEN Tail(chain)
                  ELSE [chain EXCEPT ![1].next = "event"]
      /\ UNCHANGED <<heap, entry, pipe, rows, request, restarts, failures>>
      /\ 1 \in 1..Len(chain) /\ DOMAIN chain = 1..Len(chain)
      /\ chain[1] \in SaveJob /\ chain \in Seq(SaveJob)
      /\ chain[1].object \in 1..Len(heap) /\ rec \in StoreRecord
  BY <1>1, HeadJob DEF SaveRecord, TypeOK
<1>3. PICK d \in {0, 1} : Advances(d)
  <2>1. CASE e = "none"
    BY <1>2, <2>1, TailAdvances
  <2>2. CASE e # "none"
    <3>1. /\ chain' = [chain EXCEPT ![1].next = "event"]
          /\ Len(chain) \in Nat
          /\ chain \in [1..Len(chain) -> SaveJob]
      BY <1>2, <2>2
    <3>2. [chain[1] EXCEPT !.next = "event"] \in SaveJob
      BY <1>2 DEF SaveJob
    <3>3. /\ chain' \in [1..Len(chain) -> SaveJob]
          /\ chain'[1] = [chain[1] EXCEPT !.next = "event"]
          /\ \A i \in 1..Len(chain) : i # 1 => chain'[i] = chain[i]
      BY <1>2, <3>1, <3>2
    <3>4. chain' \in Seq(SaveJob) /\ Len(chain') = Len(chain)
      BY <3>1, <3>3, LenProperties
    <3>5. e \in StoreEvents
      BY <1>2, <2>2 DEF SaveJob
    <3>6. /\ chain'[1].object = chain[1].object
          /\ chain'[1].event = chain[1].event
      BY <1>2, <3>3 DEF SaveJob
    <3>7. Len(chain) - 0 = Len(chain) /\ \A i \in 1..Len(chain) : i + 0 = i
      BY <3>1
    <3>8. \A i \in 1..Len(chain) :
            /\ chain'[i].object = chain[i].object
            /\ chain'[i].event = chain[i].event
            /\ chain'[i].next = chain[i].next \/ i = 1
      BY <3>3, <3>6
    <3>9. Advances(0)
      BY <3>4, <3>5, <3>7, <3>8 DEF Advances
    <3> QED
      BY <3>9
  <2> QED
    BY <2>1, <2>2
<1>4. /\ row' \in SavedRow
      /\ row'.status = readPersistedStatus(rec, e)
      /\ row'.snapshot.status = rec.status
  <2>1. row \in SavedRow \cup {NoRow}
    BY <1>1 DEF TypeOK
  <2> HIDE DEF rec, e
  <2> QED
    BY <1>2, <2>1, Upserted
<1>5. /\ \A s : Told(s) => ToldNext(s)
      /\ OneWriter' = OneWriter
  BY <1>2, ToldUnchanged
<1>6. RowToldNext(row')
  <2>1. /\ Told(rec.status) /\ Told(e)
        /\ \A i \in DOMAIN rec.events : Told(rec.events[i])
    BY <1>1, <1>2 DEF EveryOutcomeTold, TypeOK
  <2> HIDE DEF rec, e
  <2>2. Told(readPersistedStatus(rec, e))
    <3> DEFINE s == readPersistedStatus(rec, e)
    <3>1. \/ s = e \/ s = rec.status
          \/ \E i \in DOMAIN rec.events : s = rec.events[i]
      BY <1>2, Persisted
    <3> HIDE DEF s
    <3>2. Told(s)
      BY <2>1, <3>1
    <3> QED
      BY <3>2 DEF s
  <2> QED
    BY <1>4, <1>5, <2>1, <2>2 DEF RowToldNext
<1>7. \A i \in DOMAIN rows' : ToldNext(rows'[i])
  BY <1>1, <1>2, <1>5 DEF EveryOutcomeTold
<1>8. /\ TypeOK' /\ PointersOK' /\ NothingYet' /\ EveryOutcomeTold'
      /\ OneWriter' => Single /\ DeletesLast /\ RowCatchesUp /\ DeletesLast'
  BY <1>1, <1>2, <1>3, <1>4, <1>6, <1>7, SaveKeeps DEF TypeOK
<1>9. ASSUME OneWriter' PROVE Single' /\ RowCatchesUp'
  <2>1. Single
    BY <1>8, <1>9
  <2>2. /\ heap # <<>> /\ RecordAgrees(heap[1])
        /\ row'.status = heap[1].status /\ row'.snapshot.status = heap[1].status
        /\ row'.completedAt = heap[1].terminal
        /\ heap[1].terminal = (heap[1].status \in TerminalEvents)
    BY <1>1, <1>2, <2>1, SaveAgrees
  <2>3. RowCatchesUp'
    BY <1>2, <2>2 DEF RowCatchesUp
  <2>4. (row # NoRow /\ RowAgrees(row))'
    BY <1>2, <1>4, <2>2, RowsDiffer DEF RowAgrees
  <2>5. ASSUME NEW i \in DOMAIN rows', isTerminalRunEvent(rows'[i])
        PROVE  row' # NoRow /\ row'.status = rows'[i]
    <3>1. row # NoRow /\ row.status = rows[i] /\ RowAgrees(row)
      BY <1>2, <2>1, <2>5 DEF Single
    <3> QED
      BY <1>2, <2>2, <2>4, <2>5, <3>1 DEF RowAgrees, isTerminalRunEvent
  <2>6. ASSUME NEW i \in DOMAIN chain' PROVE JobAgrees(i)'
    <3>1. /\ i + d \in DOMAIN chain /\ i \in Nat /\ i \in 1..Len(chain')
      BY <1>2, <1>3 DEF Advances
    <3>2. JobAgrees(i + d)
      BY <2>1, <3>1 DEF Single
    <3>3. /\ chain'[i].object = chain[i + d].object
          /\ chain'[i].event = chain[i + d].event
          /\ \/ chain'[i].next = chain[i + d].next
             \/ d = 0 /\ i = 1
      BY <1>3, <3>1 DEF Advances
    <3>4. i + d = 1 => d = 0 /\ i = 1 /\ chain[i + d].next = "record"
      BY <1>2, <3>1
    <3> QED
      BY <1>2, <2>2, <2>4, <3>2, <3>3, <3>4 DEF JobAgrees
  <2> QED
    BY <1>2, <2>1, <2>3, <2>4, <2>5, <2>6 DEF Single, RowAgrees
<1> QED
  BY <1>8, <1>9 DEF IInv

\* A job that leaves the chain takes no reason away from the ones behind it.
LEMMA JobsLeft ==
  ASSUME chain \in Seq(SaveJob), chain # <<>>, chain' = Tail(chain),
         UNCHANGED heap, \A i \in DOMAIN chain : JobAgrees(i)
  PROVE  \A i \in DOMAIN chain' : JobAgrees(i)'
<1> SUFFICES ASSUME NEW i \in DOMAIN chain' PROVE JobAgrees(i)'
  OBVIOUS
<1>1. /\ Advances(1) /\ chain' \in Seq(SaveJob)
      /\ \A k \in 1..Len(chain') : chain'[k] = chain[k + 1]
  BY TailAdvances DEF Advances
<1>2. /\ i \in 1..Len(chain') /\ i \in Nat /\ i + 1 # 1
      /\ i + 1 \in DOMAIN chain
  BY <1>1 DEF Advances
<1>3. JobAgrees(i + 1) /\ chain'[i] = chain[i + 1]
  BY <1>1, <1>2
<1> QED
  BY <1>2, <1>3 DEF JobAgrees

LEMMA SaveEventInv == ASSUME IInv, SaveEvent PROVE IInv'
<1> DEFINE e == chain[1].event
           n == Len(heap[chain[1].object].events)
<1>1. /\ TypeOK /\ PointersOK /\ NothingYet /\ EveryOutcomeTold
      /\ OneWriter => Single /\ DeletesLast /\ RowCatchesUp
  BY DEF IInv
<1>2. /\ chain # <<>> /\ chain[1].next = "event" /\ row # NoRow
      /\ rows' = upsertEvent(n, e)
      /\ chain' = Tail(chain)
      /\ UNCHANGED <<heap, entry, pipe, row, request, restarts, failures>>
      /\ 1 \in 1..Len(chain) /\ DOMAIN chain = 1..Len(chain)
      /\ chain[1] \in SaveJob /\ chain \in Seq(SaveJob)
      /\ heap[chain[1].object] \in StoreRecord
  BY <1>1, HeadJob DEF SaveEvent, TypeOK
<1>3. n \in Nat /\ e \in StoreEvents /\ rows \in Seq(StoreEvents \cup {Absent})
  <2>1. heap[chain[1].object].events \in Seq(StoreEvents)
    BY <1>2 DEF StoreRecord
  <2>2. n \in Nat
    BY <2>1
  <2>3. e \in StoreEvents
    BY <1>1, <1>2 DEF PointersOK
  <2> QED
    BY <1>1, <2>2, <2>3 DEF TypeOK
<1>4. Advances(1)
  BY <1>2, TailAdvances
<1> HIDE DEF n
<1>5. /\ rows' \in Seq(StoreEvents \cup {Absent})
      /\ \A i \in DOMAIN rows' :
           rows'[i] \in {e, Absent} \/ (i \in DOMAIN rows /\ rows'[i] = rows[i])
  BY <1>2, <1>3, UpsertedEvent
<1>6. /\ \A s : Told(s) => ToldNext(s)
      /\ \A r : RowTold(r) => RowToldNext(r)
      /\ OneWriter' = OneWriter
  BY <1>2, ToldUnchanged
<1>7. Told(e) /\ Told(Absent) /\ RowTold(row)
  BY <1>1, <1>2 DEF EveryOutcomeTold, Told, Absent
<1>8. \A i \in DOMAIN rows' : ToldNext(rows'[i])
  BY <1>1, <1>5, <1>6, <1>7 DEF EveryOutcomeTold
<1>9. row' \in SavedRow \cup {NoRow} /\ failures' \in Nat
  BY <1>1, <1>2 DEF TypeOK
<1>10. RowToldNext(row')
  BY <1>2, <1>6, <1>7
<1>11. /\ TypeOK' /\ PointersOK' /\ NothingYet' /\ EveryOutcomeTold'
       /\ OneWriter' => Single /\ DeletesLast /\ RowCatchesUp /\ DeletesLast'
  BY <1>2, <1>4, <1>5, <1>8, <1>9, <1>10, SaveKeeps
<1>12. ASSUME OneWriter' PROVE Single' /\ RowCatchesUp'
  <2>1. Single /\ RowCatchesUp
    BY <1>11, <1>12
  <2>2. \A i \in DOMAIN chain' : JobAgrees(i)'
    BY <1>2, <2>1, JobsLeft DEF Single
  <2>3. ASSUME NEW i \in DOMAIN rows', isTerminalRunEvent(rows'[i])
        PROVE  row' # NoRow /\ row'.status = rows'[i]
    <3>1. ~isTerminalRunEvent(Absent)
      BY DEF isTerminalRunEvent, Absent, TerminalEvents
    <3>2. CASE rows'[i] = e
      <4>1. JobAgrees(1) /\ e # "delete"
        BY <1>2, <2>1, <2>3, <3>2 DEF Single, isTerminalRunEvent, TerminalEvents
      <4> QED
        BY <1>2, <2>3, <3>2, <4>1 DEF JobAgrees
    <3>3. CASE i \in DOMAIN rows /\ rows'[i] = rows[i]
      BY <1>2, <2>1, <2>3, <3>3 DEF Single
    <3> QED
      BY <1>5, <2>3, <3>1, <3>2, <3>3
  <2>4. Single'
    BY <1>2, <2>1, <2>2, <2>3 DEF Single, RowAgrees
  <2>5. RowCatchesUp'
    <3> SUFFICES ASSUME restarts = 0, failures = 0,
                        NEW k \in DOMAIN chain,
                        chain[k].next = "record", chain[k].event # "delete"
                 PROVE  \E i \in DOMAIN chain' :
                          chain'[i].next = "record" /\ chain'[i].event # "delete"
      BY <1>2, <2>1 DEF RowCatchesUp
    <3>1. k # 1
      BY <1>2
    <3>2. /\ Len(chain) \in Nat /\ Len(chain') = Len(chain) - 1
          /\ chain' \in Seq(SaveJob)
      BY <1>2
    <3>3. k - 1 \in DOMAIN chain' /\ (k - 1) + 1 = k
      BY <1>2, <3>1, <3>2
    <3>4. chain'[k - 1] = chain[k]
      BY <1>2, <3>2, <3>3, TailAdvances
    <3> QED
      BY <3>3, <3>4
  <2> QED
    BY <2>4, <2>5
<1> QED
  BY <1>11, <1>12 DEF IInv

LEMMA DeleteRowInv == ASSUME IInv, DeleteRow PROVE IInv'
<1>1. /\ TypeOK /\ PointersOK /\ NothingYet /\ EveryOutcomeTold
      /\ OneWriter => Single /\ DeletesLast /\ RowCatchesUp
  BY DEF IInv
<1>2. /\ chain # <<>> /\ row' = NoRow /\ rows' = <<>>
      /\ chain' = Tail(chain) /\ chain \in Seq(SaveJob)
      /\ UNCHANGED <<heap, entry, pipe, request, restarts, failures>>
  BY <1>1 DEF DeleteRow, TypeOK
<1>3. /\ Advances(1) /\ DOMAIN rows' = {}
      /\ rows' \in Seq(StoreEvents \cup {Absent})
  BY <1>2, TailAdvances
<1>4. RowToldNext(row') /\ failures' \in Nat
  BY <1>1, <1>2 DEF RowToldNext, TypeOK
<1>5. /\ TypeOK' /\ PointersOK' /\ NothingYet' /\ EveryOutcomeTold'
      /\ OneWriter' => Single /\ DeletesLast /\ RowCatchesUp /\ DeletesLast'
  BY <1>2, <1>3, <1>4, SaveKeeps
<1>6. ASSUME OneWriter' PROVE Single' /\ RowCatchesUp'
  <2>1. Single /\ DeletesLast
    BY <1>5, <1>6
  <2>2. ASSUME NEW i \in DOMAIN chain' PROVE chain'[i].event = "delete"
    <3>1. Head(chain) = chain[1] /\ 1 \in DOMAIN chain /\ chain[1].event = "delete"
      BY <1>1, <1>2, HeadJob DEF DeleteRow
    <3>2. i + 1 \in DOMAIN chain /\ 1 <= i + 1 /\ chain'[i].event = chain[i + 1].event
      BY <1>2, <1>3 DEF Advances
    <3> QED
      BY <2>1, <3>1, <3>2 DEF DeletesLast
  <2>3. \A i \in DOMAIN chain' : JobAgrees(i)'
    BY <2>2 DEF JobAgrees
  <2>4. Single'
    BY <1>2, <1>3, <2>1, <2>3 DEF Single, RowAgrees
  <2> QED
    BY <1>2, <2>4 DEF RowCatchesUp
<1> QED
  BY <1>5, <1>6 DEF IInv

LEMMA SaveFailsInv == ASSUME IInv, SaveFails PROVE IInv'
<1>1. /\ TypeOK /\ PointersOK /\ NothingYet /\ EveryOutcomeTold
      /\ OneWriter => Single /\ DeletesLast /\ RowCatchesUp
  BY DEF IInv
<1>2. /\ chain # <<>> /\ chain' = Tail(chain) /\ chain \in Seq(SaveJob)
      /\ UNCHANGED <<heap, entry, pipe, row, rows, request, restarts>>
      /\ failures' = failures + 1 \/ (failures' = failures /\ row = NoRow)
      /\ failures \in Nat
  BY <1>1 DEF SaveFails, TypeOK
<1>3. Advances(1)
  BY <1>2, TailAdvances
<1>4. /\ \A s : Told(s) => ToldNext(s)
      /\ \A r : RowTold(r) => RowToldNext(r)
  BY <1>2, ToldUnchanged
<1>5. RowToldNext(row') /\ \A i \in DOMAIN rows' : ToldNext(rows'[i])
  BY <1>1, <1>2, <1>4 DEF EveryOutcomeTold
<1>6. /\ row' \in SavedRow \cup {NoRow} /\ failures' \in Nat
      /\ rows' \in Seq(StoreEvents \cup {Absent})
  BY <1>1, <1>2 DEF TypeOK
<1>7. /\ TypeOK' /\ PointersOK' /\ NothingYet' /\ EveryOutcomeTold'
      /\ OneWriter' => Single /\ DeletesLast /\ RowCatchesUp /\ DeletesLast'
  BY <1>2, <1>3, <1>5, <1>6, SaveKeeps
<1>8. ASSUME OneWriter' PROVE Single' /\ RowCatchesUp'
  <2>1. Single
    BY <1>7, <1>8
  <2>2. \A i \in DOMAIN chain' : JobAgrees(i)'
    BY <1>2, <2>1, JobsLeft DEF Single
  <2>3. Single'
    BY <1>2, <2>1, <2>2 DEF Single, RowAgrees
  <2>4. RowCatchesUp'
    BY <1>2 DEF RowCatchesUp
  <2> QED
    BY <2>3, <2>4
<1> QED
  BY <1>7, <1>8 DEF IInv

-----------------------------------------------------------------------------
(***************************************************************************)
(* The pipeline.                                                           *)
(***************************************************************************)
\* The jobs of a burst.
LEMMA BurstJobs ==
  ASSUME NEW evs \in Seq(StoreEvents)
  PROVE  LET jobs == SaveOf(1, evs)
         IN  /\ jobs \in Seq(SaveJob) /\ Len(jobs) = Len(evs)
             /\ \A i \in 1..Len(evs) :
                  /\ jobs[i].object = 1 /\ jobs[i].event = evs[i]
                  /\ jobs[i].next = IF evs[i] = "stage_progress" THEN "event"
                                                                 ELSE "record"
<1>1. /\ Len(evs) \in Nat /\ DOMAIN evs = 1..Len(evs)
      /\ \A i \in 1..Len(evs) : evs[i] \in StoreEvents
  OBVIOUS
<1>2. \A e \in StoreEvents : Job(1, e) \in SaveJob
  BY DEF Job, SaveJob
<1>3. SaveOf(1, evs) = [i \in 1..Len(evs) |-> Job(1, evs[i])]
  BY <1>1 DEF SaveOf
<1>4. SaveOf(1, evs) \in [1..Len(evs) -> SaveJob]
  BY <1>1, <1>2, <1>3
<1>5. SaveOf(1, evs) \in Seq(SaveJob) /\ Len(SaveOf(1, evs)) = Len(evs)
  BY <1>1, <1>4, SeqDef, LenProperties
<1> QED
  BY <1>3, <1>5 DEF Job

\* Jobs appended to the chain.
LEMMA ChainGrows ==
  ASSUME chain \in Seq(SaveJob), NEW jobs \in Seq(SaveJob), chain' = chain \o jobs
  PROVE  /\ chain' \in Seq(SaveJob)
         /\ DOMAIN chain = 1..Len(chain) /\ DOMAIN chain' = 1..Len(chain')
         /\ Len(chain) \in Nat /\ Len(chain') = Len(chain) + Len(jobs)
         /\ \A i \in 1..Len(chain) : i \in 1..Len(chain') /\ chain'[i] = chain[i]
         /\ \A i \in 1..Len(jobs) : /\ Len(chain) + i \in 1..Len(chain')
                                    /\ chain'[Len(chain) + i] = jobs[i]
         /\ \A i \in 1..Len(chain') :
              i \in 1..Len(chain) \/ \E k \in 1..Len(jobs) : i = Len(chain) + k
<1>1. /\ chain' \in Seq(SaveJob) /\ Len(chain') = Len(chain) + Len(jobs)
      /\ Len(chain) \in Nat /\ Len(jobs) \in Nat
      /\ \A i \in 1..Len(chain') :
           chain'[i] = IF i <= Len(chain) THEN chain[i] ELSE jobs[i - Len(chain)]
  BY ConcatProperties
<1>2. DOMAIN chain = 1..Len(chain) /\ DOMAIN chain' = 1..Len(chain')
  BY <1>1
<1>3. ASSUME NEW i \in 1..Len(chain)
      PROVE  i \in 1..Len(chain') /\ chain'[i] = chain[i]
  BY <1>1
<1>4. ASSUME NEW i \in 1..Len(jobs)
      PROVE  Len(chain) + i \in 1..Len(chain') /\ chain'[Len(chain) + i] = jobs[i]
  <2>1. /\ Len(chain) + i \in 1..Len(chain') /\ ~(Len(chain) + i <= Len(chain))
        /\ (Len(chain) + i) - Len(chain) = i
    BY <1>1
  <2> QED
    BY <1>1, <2>1
<1>5. ASSUME NEW i \in 1..Len(chain'), i \notin 1..Len(chain)
      PROVE  \E k \in 1..Len(jobs) : i = Len(chain) + k
  <2>1. i - Len(chain) \in 1..Len(jobs) /\ i = Len(chain) + (i - Len(chain))
    BY <1>1, <1>5
  <2> QED
    BY <2>1
<1> QED
  BY <1>1, <1>2, <1>3, <1>4, <1>5

\* A burst of the pipeline on its open record.
LEMMA BurstInv ==
  ASSUME IInv, pipe \in {"text", "render"}, ~heap[1].terminal,
         NEW new \in StoreRecord, NEW evs \in Seq(StoreEvents),
         heap' = [heap EXCEPT ![1] = new], chain' = chain \o SaveOf(1, evs),
         UNCHANGED <<entry, row, rows, request, restarts, failures>>,
         pipe' \in {"render", "completed", "failed"},
         ToldNext(new.status), \A i \in DOMAIN new.events : ToldNext(new.events[i]),
         \A i \in 1..Len(evs) : ToldNext(evs[i]),
         evs # <<>>, evs[1] # "stage_progress",
         \A i \in 1..Len(evs) :
           isTerminalRunEvent(evs[i]) => new.terminal /\ new.status = evs[i],
         pipe' = "render" => ~new.terminal,
         OneWriter => RecordAgrees(new)
  PROVE  IInv'
<1>1. /\ TypeOK /\ PointersOK /\ NothingYet /\ EveryOutcomeTold
      /\ OneWriter => Single /\ DeletesLast /\ RowCatchesUp
  BY DEF IInv
<1>2. heap # <<>> /\ heap \in Seq(StoreRecord) /\ chain \in Seq(SaveJob)
  BY <1>1 DEF PointersOK, TypeOK
<1>3. /\ 1 \in DOMAIN heap /\ heap' \in Seq(StoreRecord) /\ Len(heap') = Len(heap)
      /\ DOMAIN heap' = DOMAIN heap /\ DOMAIN heap = 1..Len(heap) /\ Len(heap) \in Nat
      /\ heap'[1] = new /\ \A o \in DOMAIN heap : o # 1 => heap'[o] = heap[o]
      /\ heap' # <<>>
  BY <1>2
<1> DEFINE jobs == SaveOf(1, evs)
<1>4. /\ jobs \in Seq(SaveJob) /\ Len(jobs) = Len(evs) /\ Len(evs) \in Nat
      /\ \A i \in 1..Len(evs) :
           /\ jobs[i].object = 1 /\ jobs[i].event = evs[i]
           /\ jobs[i].next = IF evs[i] = "stage_progress" THEN "event" ELSE "record"
           /\ evs[i] \in StoreEvents
  BY BurstJobs
<1> HIDE DEF jobs
<1>5. /\ chain' \in Seq(SaveJob)
      /\ DOMAIN chain = 1..Len(chain) /\ DOMAIN chain' = 1..Len(chain')
      /\ \A i \in 1..Len(chain) : i \in 1..Len(chain') /\ chain'[i] = chain[i]
      /\ \A i \in 1..Len(jobs) : /\ Len(chain) + i \in 1..Len(chain')
                                 /\ chain'[Len(chain) + i] = jobs[i]
      /\ \A i \in 1..Len(chain') :
              i \in 1..Len(chain) \/ \E k \in 1..Len(jobs) : i = Len(chain) + k
  BY <1>2, <1>4, ChainGrows DEF jobs
\* A property of a job of the new chain is one of an old job or of the burst.
<1>6. ASSUME NEW i \in DOMAIN chain'
      PROVE  \/ i \in DOMAIN chain /\ chain'[i] = chain[i]
             \/ \E k \in 1..Len(evs) :
                  /\ chain'[i].object = 1 /\ chain'[i].event = evs[k]
                  /\ evs[k] \in StoreEvents
                  /\ chain'[i].next = "event" => evs[k] = "stage_progress"
  <2>1. CASE i \in 1..Len(chain)
    BY <1>5, <2>1
  <2>2. ASSUME NEW k \in 1..Len(jobs), i = Len(chain) + k
        PROVE  /\ chain'[i].object = 1 /\ chain'[i].event = evs[k]
               /\ evs[k] \in StoreEvents /\ k \in 1..Len(evs)
               /\ chain'[i].next = "event" => evs[k] = "stage_progress"
    <3>1. k \in 1..Len(evs) /\ chain'[i] = jobs[k]
      BY <1>4, <1>5, <2>2
    <3> QED
      BY <1>4, <3>1
  <2> QED
    BY <1>5, <2>1, <2>2
<1>7. TypeOK'
  BY <1>1, <1>3, <1>5 DEF TypeOK
<1>8. PointersOK'
  <2>1. \A i \in DOMAIN chain' :
          /\ chain'[i].object <= Len(heap')
          /\ chain'[i].next = "event" => chain'[i].event \in StoreEvents
    <3> SUFFICES ASSUME NEW i \in DOMAIN chain'
                 PROVE  /\ chain'[i].object <= Len(heap')
                        /\ chain'[i].next = "event" => chain'[i].event \in StoreEvents
      OBVIOUS
    <3>1. 1 <= Len(heap')
      BY <1>3
    <3>2. CASE i \in DOMAIN chain /\ chain'[i] = chain[i]
      BY <1>1, <1>3, <3>2 DEF PointersOK
    <3>3. CASE \E k \in 1..Len(evs) :
                 /\ chain'[i].object = 1 /\ chain'[i].event = evs[k]
                 /\ evs[k] \in StoreEvents
      BY <3>1, <3>3
    <3> QED
      BY <1>6, <3>2, <3>3
  <2>2. \A q \in Requests : request'[q].step = "cancelling" =>
          Kind[q] = "cancel" /\ request'[q].object \in 1..Len(heap')
    BY <1>1, <1>3 DEF PointersOK
  <2> QED
    BY <1>3, <2>1, <2>2 DEF PointersOK
<1>9. NothingYet'
  BY <1>3 DEF NothingYet
<1>10. /\ \A s : Told(s) => ToldNext(s)
       /\ \A r : RowTold(r) => RowToldNext(r)
       /\ OneWriter' = OneWriter
  <2>1. CancelDone' = CancelDone /\ OneWriter' = OneWriter
    BY DEF CancelDone, OneWriter
  <2> QED
    BY <2>1, ToldStays
<1>11. EveryOutcomeTold'
  <2>1. \A o \in DOMAIN heap' :
           /\ ToldNext(heap'[o].status)
           /\ \A i \in DOMAIN heap'[o].events : ToldNext(heap'[o].events[i])
    BY <1>1, <1>3, <1>10 DEF EveryOutcomeTold
  <2>2. \A i \in DOMAIN chain' : ToldNext(chain'[i].event)
    BY <1>1, <1>6, <1>10 DEF EveryOutcomeTold
  <2>3. /\ RowToldNext(row') /\ \A i \in DOMAIN rows' : ToldNext(rows'[i])
        /\ \A q \in Requests : RowToldNext(request'[q].row)
    BY <1>1, <1>10 DEF EveryOutcomeTold
  <2> QED
    BY <2>1, <2>2, <2>3, OutcomesTold
<1>12. ASSUME OneWriter' PROVE Single' /\ DeletesLast' /\ RowCatchesUp'
  <2>1. Single /\ DeletesLast /\ RecordAgrees(new)
    BY <1>1, <1>10, <1>12
  <2>2. \A i \in DOMAIN chain' : chain'[i].event # "delete"
    <3>1. \A i \in DOMAIN chain : chain[i].event # "delete"
      BY <2>1 DEF DeletesLast
    <3>2. "delete" \notin StoreEvents
      BY DEF StoreEvents, Events, TerminalEvents
    <3>3. ASSUME NEW i \in DOMAIN chain' PROVE chain'[i].event # "delete"
      <4>1. \/ i \in DOMAIN chain /\ chain'[i] = chain[i]
            \/ \E k \in 1..Len(evs) :
                  chain'[i].event = evs[k] /\ evs[k] \in StoreEvents
        BY <1>6
      <4> QED
        BY <3>1, <3>2, <4>1
    <3> QED
      BY <3>3
  <2>3. ASSUME NEW i \in DOMAIN chain' PROVE JobAgrees(i)'
    <3>1. CASE i \in DOMAIN chain /\ chain'[i] = chain[i]
      BY <1>3, <2>1, <2>2, <3>1 DEF Single, JobAgrees
    <3>2. ASSUME NEW k \in 1..Len(evs),
                 chain'[i].object = 1, chain'[i].event = evs[k],
                 chain'[i].next = "event" => evs[k] = "stage_progress"
          PROVE  JobAgrees(i)'
      <4>1. ~isTerminalRunEvent("stage_progress")
        BY EventNames
      <4> QED
        BY <1>3, <3>2, <4>1 DEF JobAgrees
    <3> QED
      BY <1>6, <3>1, <3>2
  <2>4. RecordAgrees(heap[1])'
    BY <1>3, <2>1 DEF RecordAgrees
  <2>5. \A o \in DOMAIN heap' : o # 1 /\ ~isActiveRun(heap'[o]) => heap'[1].terminal
    BY <1>3, <2>1 DEF Single
  <2>6. /\ row' # NoRow => RowAgrees(row)'
        /\ \A q \in Requests :
             request'[q].step = "row_read" /\ request'[q].row # NoRow =>
               RowAgrees(request[q].row)'
    BY <2>1 DEF Single, RowAgrees
  <2>7. pipe' \in {"text", "render"} => ~heap'[1].terminal
    BY <1>3
  <2>8. Single'
    BY <1>3, <2>1, <2>3, <2>4, <2>5, <2>6, <2>7 DEF Single
  <2>9. DeletesLast'
    BY <2>2 DEF DeletesLast
  <2>10. RowCatchesUp'
    <3>1. 1 \in 1..Len(evs)
      BY <1>4
    <3>2. /\ Len(chain) + 1 \in DOMAIN chain'
          /\ chain'[Len(chain) + 1].next = "record"
      <4>1. 1 \in 1..Len(jobs) /\ jobs[1].next = "record"
        BY <1>4, <3>1
      <4>2. /\ Len(chain) + 1 \in DOMAIN chain'
            /\ chain'[Len(chain) + 1] = jobs[1]
        BY <1>5, <4>1
      <4> QED
        BY <4>1, <4>2
    <3> QED
      BY <2>2, <3>2 DEF RowCatchesUp
  <2> QED
    BY <2>8, <2>9, <2>10
<1> QED
  BY <1>7, <1>8, <1>9, <1>11, <1>12 DEF IInv

\* What a burst starts from.
LEMMA BurstStart ==
  ASSUME IInv, pipe \in {"text", "render"}, ~isRunCancelled(heap[1]),
         UNCHANGED request
  PROVE  /\ heap[1] \in StoreRecord /\ heap[1].terminal = FALSE
         /\ heap[1].events \in Seq(StoreEvents) /\ Len(heap[1].events) \in Nat
         /\ \A i \in DOMAIN heap[1].events :
              /\ ToldNext(heap[1].events[i])
              /\ OneWriter => ~isTerminalRunEvent(heap[1].events[i])
         /\ chain \in Seq(SaveJob)
<1>1. TypeOK /\ PointersOK /\ EveryOutcomeTold /\ (OneWriter => Single)
  BY DEF IInv
<1>2. heap # <<>> /\ heap \in Seq(StoreRecord) /\ chain \in Seq(SaveJob)
  BY <1>1 DEF PointersOK, TypeOK
<1>3. 1 \in DOMAIN heap /\ heap[1] \in StoreRecord
  BY <1>2
<1>4. /\ heap[1].terminal = FALSE /\ heap[1].events \in Seq(StoreEvents)
      /\ Len(heap[1].events) \in Nat
  BY <1>3 DEF StoreRecord, isRunCancelled
<1>5. \A s : Told(s) => ToldNext(s)
  <2>1. CancelDone' = CancelDone
    BY DEF CancelDone
  <2> QED
    BY <2>1, ToldStays
<1>6. \A i \in DOMAIN heap[1].events : ToldNext(heap[1].events[i])
  BY <1>1, <1>3, <1>5 DEF EveryOutcomeTold
<1>7. OneWriter => \A i \in DOMAIN heap[1].events :
                      ~isTerminalRunEvent(heap[1].events[i])
  BY <1>1, <1>2, <1>4 DEF Single, RecordAgrees
<1> QED
  BY <1>2, <1>3, <1>4, <1>6, <1>7

LEMMA OpensSecondStageInv == ASSUME IInv, OpensSecondStage PROVE IInv'
<1> DEFINE old == heap[1]
           new == opened(heap[1])
           evs == <<"stage_started", "stage_progress">>
<1>1. /\ pipe = "text" /\ ~isRunCancelled(old) /\ Emits(new, evs)
      /\ pipe' = "render"
      /\ UNCHANGED <<entry, row, rows, request, restarts, failures>>
  BY DEF OpensSecondStage
<1>2. /\ old \in StoreRecord /\ old.terminal = FALSE
      /\ old.events \in Seq(StoreEvents) /\ Len(old.events) \in Nat
      /\ \A i \in DOMAIN old.events :
           ToldNext(old.events[i]) /\ (OneWriter => ~isTerminalRunEvent(old.events[i]))
  BY <1>1, BurstStart
<1> HIDE DEF old
<1>3. new = opened(old)
  BY DEF old
<1> HIDE DEF new
<1>4. /\ new \in StoreRecord /\ new.status = "running" /\ new.terminal = FALSE
      /\ new.events = Append(Append(old.events, "stage_started"), "stage_progress")
  BY <1>2, <1>3, Opened
<1>5. /\ Len(new.events) = Len(old.events) + 2
      /\ \A i \in DOMAIN new.events :
           \/ new.events[i] \in {"stage_started", "stage_progress"}
           \/ i \in DOMAIN old.events /\ new.events[i] = old.events[i]
  BY <1>2, <1>4, TwoAppended, EventNames
<1>6. heap' = [heap EXCEPT ![1] = new] /\ chain' = chain \o SaveOf(1, evs)
  <2>1. Len(new.events) # Len(old.events)
    BY <1>2, <1>5
  <2> QED
    BY <1>1, <2>1 DEF Emits, old
<1>7. /\ evs \in Seq(StoreEvents) /\ evs # <<>> /\ evs[1] # "stage_progress"
      /\ Len(evs) = 2
      /\ \A i \in 1..Len(evs) : evs[i] \in {"stage_started", "stage_progress"}
  BY EventNames
<1>8. \A e \in {"stage_started", "stage_progress", "running"} :
        ToldNext(e) /\ ~isTerminalRunEvent(e)
  BY DEF ToldNext, isTerminalRunEvent, TerminalEvents
<1> HIDE DEF evs
<1>9. \A i \in DOMAIN new.events :
        ToldNext(new.events[i]) /\ (OneWriter => ~isTerminalRunEvent(new.events[i]))
  BY <1>2, <1>5, <1>8
<1>10. OneWriter => RecordAgrees(new)
  BY <1>4, <1>9 DEF RecordAgrees, isActiveStatus
<1>11. ~heap[1].terminal
  BY <1>2 DEF old
<1> QED
  BY <1>1, <1>4, <1>6, <1>7, <1>8, <1>9, <1>10, <1>11, BurstInv

LEMMA CompletesInv == ASSUME IInv, Completes PROVE IInv'
<1> DEFINE old == heap[1]
           new == completeRun(emitEvent(heap[1], "artifact_ready"))
           evs == <<"artifact_ready", "completed">>
<1>1. /\ pipe = "render" /\ ~isRunCancelled(old) /\ Emits(new, evs)
      /\ pipe' = "completed"
      /\ UNCHANGED <<entry, row, rows, request, restarts, failures>>
  BY DEF Completes
<1>2. /\ old \in StoreRecord /\ old.terminal = FALSE
      /\ old.events \in Seq(StoreEvents) /\ Len(old.events) \in Nat
      /\ \A i \in DOMAIN old.events :
           ToldNext(old.events[i]) /\ (OneWriter => ~isTerminalRunEvent(old.events[i]))
  BY <1>1, BurstStart
<1> HIDE DEF old
<1>3. new = completeRun(emitEvent(old, "artifact_ready"))
  BY DEF old
<1> HIDE DEF new
<1>4. /\ new \in StoreRecord /\ new.status = "completed" /\ new.terminal = TRUE
      /\ new.events = Append(Append(old.events, "artifact_ready"), "completed")
  BY <1>2, <1>3, Completed
<1>5. /\ Len(new.events) = Len(old.events) + 2
      /\ \A i \in DOMAIN new.events :
           \/ new.events[i] \in {"artifact_ready", "completed"}
           \/ i \in DOMAIN old.events /\ new.events[i] = old.events[i]
  BY <1>2, <1>4, TwoAppended, EventNames
<1>6. heap' = [heap EXCEPT ![1] = new] /\ chain' = chain \o SaveOf(1, evs)
  <2>1. Len(new.events) # Len(old.events)
    BY <1>2, <1>5
  <2> QED
    BY <1>1, <2>1 DEF Emits, old
<1>7. /\ evs \in Seq(StoreEvents) /\ evs # <<>> /\ evs[1] # "stage_progress"
      /\ Len(evs) = 2
      /\ \A i \in 1..Len(evs) : evs[i] \in {"artifact_ready", "completed"}
  BY EventNames
<1>8. /\ ToldNext("artifact_ready") /\ ToldNext("completed")
      /\ ~isTerminalRunEvent("artifact_ready")
  BY <1>1 DEF ToldNext, isTerminalRunEvent, TerminalEvents
<1> HIDE DEF evs
<1>9. \A i \in DOMAIN new.events :
        /\ ToldNext(new.events[i])
        /\ OneWriter /\ isTerminalRunEvent(new.events[i]) => new.events[i] = "completed"
  BY <1>2, <1>5, <1>8
<1>10. OneWriter => RecordAgrees(new)
  BY <1>4, <1>9 DEF RecordAgrees, TerminalEvents
<1>11. ~heap[1].terminal
  BY <1>2 DEF old
<1>12. /\ \A i \in 1..Len(evs) : ToldNext(evs[i])
       /\ \A i \in 1..Len(evs) : isTerminalRunEvent(evs[i]) => evs[i] = "completed"
  BY <1>7, <1>8
<1> QED
  BY <1>1, <1>4, <1>6, <1>7, <1>8, <1>9, <1>10, <1>11, <1>12, BurstInv

LEMMA FailsInv == ASSUME IInv, Fails PROVE IInv'
<1> DEFINE old == heap[1]
           new == failRun(heap[1], "RUN_ERROR")
           evs == <<"failed">>
<1>1. /\ pipe \in {"text", "render"} /\ ~isRunCancelled(old) /\ Emits(new, evs)
      /\ pipe' = "failed"
      /\ UNCHANGED <<entry, row, rows, request, restarts, failures>>
  BY DEF Fails
<1>2. /\ old \in StoreRecord /\ old.terminal = FALSE
      /\ old.events \in Seq(StoreEvents) /\ Len(old.events) \in Nat
      /\ \A i \in DOMAIN old.events :
           ToldNext(old.events[i]) /\ (OneWriter => ~isTerminalRunEvent(old.events[i]))
  BY <1>1, BurstStart
<1> HIDE DEF old
<1>3. new = failRun(old, "RUN_ERROR")
  BY DEF old
<1> HIDE DEF new
<1>4. /\ new \in StoreRecord /\ new.status = "failed" /\ new.terminal = TRUE
      /\ new.events = Append(old.events, "failed")
  BY <1>2, <1>3, Failed
<1>5. /\ Len(new.events) = Len(old.events) + 1
      /\ \A i \in DOMAIN new.events :
           \/ new.events[i] = "failed"
           \/ i \in DOMAIN old.events /\ new.events[i] = old.events[i]
  BY <1>2, <1>4, EventNames
<1>6. heap' = [heap EXCEPT ![1] = new] /\ chain' = chain \o SaveOf(1, evs)
  <2>1. Len(new.events) # Len(old.events)
    BY <1>2, <1>5
  <2> QED
    BY <1>1, <2>1 DEF Emits, old
<1>7. /\ evs \in Seq(StoreEvents) /\ evs # <<>> /\ evs[1] # "stage_progress"
      /\ Len(evs) = 1 /\ \A i \in 1..Len(evs) : evs[i] = "failed"
  BY EventNames
<1>8. ToldNext("failed")
  BY DEF ToldNext
<1> HIDE DEF evs
<1>9. \A i \in DOMAIN new.events :
        /\ ToldNext(new.events[i])
        /\ OneWriter /\ isTerminalRunEvent(new.events[i]) => new.events[i] = "failed"
  BY <1>2, <1>5, <1>8
<1>10. OneWriter => RecordAgrees(new)
  BY <1>4, <1>9 DEF RecordAgrees, TerminalEvents
<1>11. ~heap[1].terminal
  BY <1>2 DEF old
<1> QED
  BY <1>1, <1>4, <1>6, <1>7, <1>8, <1>9, <1>10, <1>11, BurstInv

LEMMA StopsInv == ASSUME IInv, Stops PROVE IInv'
<1>1. /\ TypeOK /\ PointersOK /\ NothingYet /\ EveryOutcomeTold
      /\ OneWriter => Single /\ DeletesLast /\ RowCatchesUp
  BY DEF IInv
<1>2. /\ pipe \in {"text", "render"} /\ pipe' = "stopped"
      /\ UNCHANGED <<heap, entry, chain, row, rows, request, restarts, failures>>
  BY DEF Stops
<1>3. /\ CancelDone' = CancelDone /\ OneWriter' = OneWriter
  BY <1>2 DEF CancelDone, OneWriter
<1>4. /\ \A s : Told(s) => ToldNext(s)
      /\ \A r : RowTold(r) => RowToldNext(r)
  BY <1>2, <1>3, ToldStays
<1>5. TypeOK' /\ PointersOK' /\ NothingYet'
  BY <1>1, <1>2 DEF TypeOK, PointersOK, NothingYet
<1>6. EveryOutcomeTold'
  BY <1>1, <1>2, <1>4, OutcomesTold DEF EveryOutcomeTold
<1>7. ASSUME OneWriter' PROVE Single' /\ DeletesLast' /\ RowCatchesUp'
  <2>1. Single /\ DeletesLast /\ RowCatchesUp
    BY <1>1, <1>3, <1>7
  <2>2. \A i \in DOMAIN chain' : JobAgrees(i)'
    BY <1>2, <2>1 DEF Single, JobAgrees
  <2>3. Single'
    BY <1>2, <2>1, <2>2 DEF Single, RowAgrees
  <2> QED
    BY <1>2, <2>1, <2>3 DEF DeletesLast, RowCatchesUp
<1> QED
  BY <1>5, <1>6, <1>7 DEF IInv

\* The record a start makes.
LEMMA FirstRecord ==
  LET new == opened(emitEvent(EmptyRecord, "queued"))
  IN  /\ new \in StoreRecord
      /\ new.status = "running" /\ new.terminal = FALSE
      /\ \A i \in DOMAIN new.events :
           new.events[i] \in {"queued", "stage_started", "stage_progress"}
<1> DEFINE one == emitEvent(EmptyRecord, "queued")
           new == opened(one)
<1>1. /\ EmptyRecord \in StoreRecord /\ EmptyRecord.terminal = FALSE
      /\ EmptyRecord.events = <<>>
  BY DEF EmptyRecord, StoreRecord, Statuses, RunErrors
<1>2. /\ one \in StoreRecord /\ one.terminal = FALSE
      /\ one.events = Append(<<>>, "queued")
  BY <1>1, EmittedOpen, EventNames
<1> HIDE DEF one
<1>3. /\ new \in StoreRecord /\ new.status = "running" /\ new.terminal = FALSE
      /\ new.events = Append(Append(one.events, "stage_started"), "stage_progress")
  BY <1>2, Opened
<1> HIDE DEF new
<1>4. one.events \in Seq(StoreEvents) /\ DOMAIN one.events = 1..1 /\ one.events[1] = "queued"
  BY <1>2, EventNames
<1>5. \A i \in DOMAIN new.events :
        \/ new.events[i] \in {"stage_started", "stage_progress"}
        \/ i \in DOMAIN one.events /\ new.events[i] = one.events[i]
  BY <1>3, <1>4, TwoAppended, EventNames
<1>6. \A i \in DOMAIN one.events : one.events[i] = "queued"
  BY <1>4
<1> QED
  BY <1>3, <1>5, <1>6 DEF one, new

LEMMA StartRunInv == ASSUME IInv, StartRun PROVE IInv'
<1> DEFINE new == opened(emitEvent(EmptyRecord, "queued"))
           evs == <<"queued", "stage_started", "stage_progress">>
           first == <<Job(1, "none")>>
           jobs == SaveOf(1, evs)
<1>1. /\ TypeOK /\ PointersOK /\ NothingYet /\ EveryOutcomeTold
      /\ OneWriter => Single /\ DeletesLast /\ RowCatchesUp
  BY DEF IInv
<1>2. /\ pipe = "none" /\ heap' = <<new>> /\ entry' = 1
      /\ chain' = first \o jobs /\ pipe' = "text"
      /\ UNCHANGED <<row, rows, request, restarts, failures>>
  BY DEF StartRun
<1>3. /\ heap = <<>> /\ row = NoRow
      /\ \A q \in Requests : request[q].step # "row_read"
  BY <1>1, <1>2 DEF NothingYet
<1>4. /\ new \in StoreRecord /\ new.status = "running" /\ new.terminal = FALSE
      /\ \A i \in DOMAIN new.events :
           new.events[i] \in {"queued", "stage_started", "stage_progress"}
  BY FirstRecord
<1> HIDE DEF new
<1>5. /\ heap' \in Seq(StoreRecord) /\ Len(heap') = 1 /\ DOMAIN heap' = {1}
      /\ heap'[1] = new /\ heap' # <<>>
  BY <1>2, <1>4
<1>6. /\ first \in Seq(SaveJob) /\ Len(first) = 1
      /\ first[1].object = 1 /\ first[1].event = "none" /\ first[1].next = "record"
  BY DEF Job, SaveJob
<1>7. /\ evs \in Seq(StoreEvents) /\ Len(evs) = 3
      /\ \A i \in 1..3 : evs[i] \in {"queued", "stage_started", "stage_progress"}
  BY EventNames
<1> HIDE DEF evs
<1>8. /\ jobs \in Seq(SaveJob) /\ Len(jobs) = 3
      /\ \A i \in 1..3 :
           /\ jobs[i].object = 1 /\ jobs[i].event = evs[i]
           /\ jobs[i].next = IF evs[i] = "stage_progress" THEN "event" ELSE "record"
  BY <1>7, BurstJobs
<1> HIDE DEF first, jobs
<1>9. /\ chain' \in Seq(SaveJob) /\ Len(chain') = 4 /\ DOMAIN chain' = 1..4
      /\ \A i \in 1..4 : chain'[i] = IF i <= 1 THEN first[i] ELSE jobs[i - 1]
  <2>1. /\ chain' \in Seq(SaveJob) /\ Len(chain') = Len(first) + Len(jobs)
        /\ \A i \in 1..(Len(first) + Len(jobs)) :
             chain'[i] = IF i <= Len(first) THEN first[i] ELSE jobs[i - Len(first)]
    <3>1. /\ chain' = first \o jobs
          /\ first \in Seq(SaveJob) /\ jobs \in Seq(SaveJob)
      BY <1>2, <1>6, <1>8
    <3> QED
      BY <3>1, ConcatProperties
  <2>2. Len(first) + Len(jobs) = 4
    BY <1>6, <1>8
  <2> QED
    BY <1>6, <2>1, <2>2
<1>10. ASSUME NEW i \in DOMAIN chain'
       PROVE  /\ chain'[i].object = 1
              /\ chain'[i].event \in {"none", "queued", "stage_started", "stage_progress"}
              /\ chain'[i].next = "event" => chain'[i].event = "stage_progress"
  <2>1. CASE i = 1
    BY <1>6, <1>9, <2>1
  <2>2. CASE i # 1
    <3>1. i - 1 \in 1..3 /\ chain'[i] = jobs[i - 1]
      BY <1>9, <2>2
    <3> QED
      BY <1>7, <1>8, <3>1
  <2> QED
    BY <2>1, <2>2
<1>11. TypeOK'
  BY <1>1, <1>2, <1>5, <1>9 DEF TypeOK
<1>12. PointersOK' /\ NothingYet'
  <2>1. \A q \in Requests : request[q].step # "cancelling"
    BY <1>1, <1>3 DEF PointersOK
  <2> QED
    BY <1>2, <1>5, <1>10, <2>1, EventNames DEF PointersOK, NothingYet
<1>13. /\ CancelDone' = CancelDone /\ OneWriter' = OneWriter
  BY <1>2 DEF CancelDone, OneWriter
<1>14. /\ \A s : Told(s) => ToldNext(s)
       /\ \A r : RowTold(r) => RowToldNext(r)
  BY <1>2, <1>13, ToldStays
<1>15. \A e \in {"none", "queued", "stage_started", "stage_progress", "running"} :
         ToldNext(e) /\ ~isTerminalRunEvent(e) /\ e # "delete"
  BY DEF ToldNext, isTerminalRunEvent, TerminalEvents
<1>16. EveryOutcomeTold'
  <2>1. \A o \in DOMAIN heap' :
           /\ ToldNext(heap'[o].status)
           /\ \A i \in DOMAIN heap'[o].events : ToldNext(heap'[o].events[i])
    BY <1>4, <1>5, <1>15
  <2>2. \A i \in DOMAIN chain' : ToldNext(chain'[i].event)
    BY <1>10, <1>15
  <2>3. /\ RowToldNext(row') /\ \A i \in DOMAIN rows' : ToldNext(rows'[i])
        /\ \A q \in Requests : RowToldNext(request'[q].row)
    BY <1>1, <1>2, <1>14 DEF EveryOutcomeTold
  <2> QED
    BY <2>1, <2>2, <2>3, OutcomesTold
<1>17. ASSUME OneWriter' PROVE Single' /\ DeletesLast' /\ RowCatchesUp'
  <2>1. Single
    BY <1>1, <1>13, <1>17
  <2>2. RecordAgrees(heap[1])'
    BY <1>4, <1>5, <1>15 DEF RecordAgrees, isActiveStatus
  <2>3. \A i \in DOMAIN chain' : JobAgrees(i)'
    BY <1>10, <1>15 DEF JobAgrees
  <2>4. Single'
    BY <1>2, <1>3, <1>4, <1>5, <2>1, <2>2, <2>3 DEF Single
  <2>5. DeletesLast'
    BY <1>10, <1>15 DEF DeletesLast
  <2> QED
    BY <1>2, <1>3, <2>4, <2>5 DEF RowCatchesUp
<1> QED
  BY <1>11, <1>12, <1>16, <1>17 DEF IInv

-----------------------------------------------------------------------------
(***************************************************************************)
(* The requests.                                                           *)
(***************************************************************************)
LEMMA ReadsRowInv == ASSUME IInv, NEW q \in Requests, ReadsRow(q) PROVE IInv'
<1>1. /\ TypeOK /\ PointersOK /\ NothingYet /\ EveryOutcomeTold
      /\ OneWriter => Single /\ DeletesLast /\ RowCatchesUp
  BY DEF IInv
<1>2. /\ entry # 0 \/ row # NoRow
      /\ request[q].step = "new"
      /\ request' = [request EXCEPT ![q].step = "row_read", ![q].row = row]
      /\ UNCHANGED <<heap, entry, pipe, chain, row, rows, restarts, failures>>
      /\ request \in [Requests -> RequestState] /\ row \in SavedRow \cup {NoRow}
  BY <1>1 DEF ReadsRow, TypeOK
<1>3. /\ request' \in [Requests -> RequestState]
      /\ request'[q].step = "row_read" /\ request'[q].row = row
      /\ \A p \in Requests : p # q => request'[p] = request[p]
  BY <1>2 DEF RequestState
<1>4. heap # <<>>
  BY <1>1, <1>2 DEF TypeOK, NothingYet
<1>5. /\ CancelDone => CancelDone'
      /\ OneWriter' => OneWriter
  BY <1>2, <1>3 DEF CancelDone, OneWriter
<1>6. /\ \A s : Told(s) => ToldNext(s)
      /\ \A r : RowTold(r) => RowToldNext(r)
  BY <1>2, <1>5, ToldStays
<1>7. TypeOK' /\ PointersOK' /\ NothingYet'
  BY <1>1, <1>2, <1>3, <1>4 DEF TypeOK, PointersOK, NothingYet
<1>8. EveryOutcomeTold'
  <2>1. \A p \in Requests : RowToldNext(request'[p].row)
    BY <1>1, <1>3, <1>6 DEF EveryOutcomeTold
  <2> QED
    BY <1>1, <1>2, <1>6, <2>1, OutcomesTold DEF EveryOutcomeTold
<1>9. ASSUME OneWriter' PROVE Single' /\ DeletesLast' /\ RowCatchesUp'
  <2>1. Single /\ DeletesLast /\ RowCatchesUp
    BY <1>1, <1>5, <1>9
  <2>2. \A i \in DOMAIN chain' : JobAgrees(i)'
    BY <1>2, <2>1 DEF Single, JobAgrees
  <2>3. \A p \in Requests :
          request'[p].step = "row_read" /\ request'[p].row # NoRow =>
            RowAgrees(request[p].row)'
    BY <1>2, <1>3, <2>1 DEF Single, RowAgrees
  <2>4. Single'
    BY <1>2, <2>1, <2>2, <2>3 DEF Single, RowAgrees
  <2> QED
    BY <1>2, <2>1, <2>4 DEF DeletesLast, RowCatchesUp
<1> QED
  BY <1>7, <1>8, <1>9 DEF IInv

\* What every route does past its refresh: it moves on, and queues at most
\* the saves of the refresh and a deletion.
Moves(q, o, objects, saves) ==
  /\ request'[q].step \in {"answered", "cancelling", "refused", "deleted"}
  /\ request'[q].object = o
  /\ request'[q].step = "cancelling" => Kind[q] = "cancel" /\ o # 0
  /\ request'[q].row = request[q].row
  /\ request' \in [Requests -> RequestState]
  /\ \A p \in Requests : p # q => request'[p] = request[p]
  /\ entry' \in {0, o}
  /\ \/ chain' = chain \o saves
     \/ /\ o # 0 /\ ~isActiveRun(objects[o])
        /\ chain' = chain \o (saves \o <<Job(o, "delete")>>)

LEMMA RouteMoves ==
  ASSUME NEW q \in Requests, NEW o \in Nat, NEW objects,
         NEW saves \in Seq(SaveJob), chain \in Seq(SaveJob),
         request \in [Requests -> RequestState], Continues(q, o, objects, saves)
  PROVE  Moves(q, o, objects, saves)
<1>1. ASSUME NEW s \in {"answered", "cancelling", "refused", "deleted"},
             request' = [request EXCEPT ![q].step = s, ![q].object = o]
      PROVE  /\ request' \in [Requests -> RequestState]
             /\ request'[q].step = s /\ request'[q].object = o
             /\ request'[q].row = request[q].row
             /\ \A p \in Requests : p # q => request'[p] = request[p]
  BY <1>1 DEF RequestState
<1>2. CASE /\ Kind[q] = "read" \/ o = 0
           /\ request' = [request EXCEPT ![q].step = "answered", ![q].object = o]
           /\ chain' = chain \o saves /\ entry' = o
  BY <1>1, <1>2 DEF Moves
<1>3. CASE /\ Kind[q] = "cancel" /\ o # 0
           /\ request' = [request EXCEPT
                ![q].step = IF objects[o].terminal THEN "refused" ELSE "cancelling",
                ![q].object = o]
           /\ chain' = chain \o saves /\ entry' = o
  BY <1>1, <1>3 DEF Moves
<1>4. CASE /\ Kind[q] = "delete" /\ o # 0 /\ isActiveRun(objects[o])
           /\ request' = [request EXCEPT ![q].step = "refused", ![q].object = o]
           /\ chain' = chain \o saves /\ entry' = o
  BY <1>1, <1>4 DEF Moves
<1>5. CASE /\ Kind[q] = "delete" /\ o # 0 /\ ~isActiveRun(objects[o])
           /\ request' = [request EXCEPT ![q].step = "deleted", ![q].object = o]
           /\ chain' = chain \o saves \o <<Job(o, "delete")>> /\ entry' = 0
  <2>1. Job(o, "delete") \in SaveJob
    BY <1>5 DEF Job, SaveJob
  <2>2. (chain \o saves) \o <<Job(o, "delete")>> =
          chain \o (saves \o <<Job(o, "delete")>>)
    BY <2>1, ConcatAssociative
  <2> QED
    BY <1>1, <1>5, <2>2 DEF Moves
<1> QED
  BY <1>2, <1>3, <1>4, <1>5 DEF Continues

\* What a refresh that ended with the object o may have queued, and what the
\* route adds to it.
RefreshQueues(o, saves) ==
  saves = <<>> \/ (o # 0 /\ saves = <<Job(o, "none")>>)

RouteQueues(o, saves, jobs) ==
  jobs = saves \/ (o # 0 /\ jobs = saves \o <<Job(o, "delete")>>)

LEMMA RouteJobs ==
  ASSUME NEW o \in Nat, NEW saves, RefreshQueues(o, saves),
         NEW jobs, RouteQueues(o, saves, jobs)
  PROVE  /\ jobs \in Seq(SaveJob)
         /\ \A k \in 1..Len(jobs) :
              /\ jobs[k].object = o /\ o # 0
              /\ jobs[k].event \in {"none", "delete"}
              /\ jobs[k].next = "record"
              /\ saves = <<>> => jobs[k].event = "delete"
<1> DEFINE none == Job(o, "none")
           delete == Job(o, "delete")
<1>1. /\ none.object = o /\ none.event = "none" /\ none.next = "record"
      /\ delete.object = o /\ delete.event = "delete" /\ delete.next = "record"
      /\ o # 0 => none \in SaveJob /\ delete \in SaveJob
  BY DEF Job, SaveJob
<1> HIDE DEF none, delete
<1>2. \/ jobs = <<>>
      \/ o # 0 /\ jobs = <<none>> /\ saves # <<>>
      \/ o # 0 /\ jobs = <<delete>>
      \/ o # 0 /\ jobs = <<none, delete>> /\ saves # <<>>
  <2>0. /\ saves = <<>> \/ (o # 0 /\ saves = <<none>>)
        /\ jobs = saves \/ (o # 0 /\ jobs = saves \o <<delete>>)
    BY DEF RefreshQueues, RouteQueues, none, delete
  <2>1. CASE saves = <<>>
    <3>1. o # 0 => saves \o <<delete>> = <<delete>>
      BY <1>1, <2>1
    <3> QED
      BY <2>0, <2>1, <3>1
  <2>2. CASE o # 0 /\ saves = <<none>>
    <3>0. none \in SaveJob /\ delete \in SaveJob
      BY <1>1, <2>2
    <3>1. <<none>> \o <<delete>> = <<none, delete>>
      <4>1. /\ <<none>> \in Seq(SaveJob) /\ Len(<<none>>) = 1
            /\ <<delete>> \in Seq(SaveJob) /\ Len(<<delete>>) = 1
            /\ <<none, delete>> \in Seq(SaveJob) /\ Len(<<none, delete>>) = 2
        BY <3>0
      <4>2. /\ <<none>> \o <<delete>> \in Seq(SaveJob)
            /\ Len(<<none>> \o <<delete>>) = 2
            /\ (<<none>> \o <<delete>>)[1] = none
            /\ (<<none>> \o <<delete>>)[2] = delete
        BY <4>1, ConcatProperties
      <4> DEFINE a == <<none>> \o <<delete>>
                 b == <<none, delete>>
      <4>3. b[1] = none /\ b[2] = delete
        OBVIOUS
      <4> HIDE DEF a, b
      <4>4. /\ a \in Seq(SaveJob) /\ Len(a) = 2 /\ b \in Seq(SaveJob) /\ Len(b) = 2
            /\ a[1] = b[1] /\ a[2] = b[2]
        BY <4>1, <4>2, <4>3 DEF a, b
      <4>5. \A i \in 1..Len(a) : a[i] = b[i]
        BY <4>4
      <4>6. a = b
        BY <4>4, <4>5, SeqEqual
      <4> QED
        BY <4>6 DEF a, b
    <3>2. saves \o <<delete>> = <<none, delete>> /\ saves # <<>>
      BY <2>2, <3>1
    <3> QED
      BY <2>0, <2>2, <3>2
  <2> QED
    BY <2>0, <2>1, <2>2
<1>3. CASE jobs = <<>>
  BY <1>3
<1>4. CASE o # 0 /\ jobs = <<none>> /\ saves # <<>>
  BY <1>1, <1>4
<1>5. CASE o # 0 /\ jobs = <<delete>>
  BY <1>1, <1>5
<1>6. CASE o # 0 /\ jobs = <<none, delete>> /\ saves # <<>>
  <2>1. jobs \in Seq(SaveJob) /\ Len(jobs) = 2 /\ jobs[1] = none /\ jobs[2] = delete
    BY <1>1, <1>6
  <2>2. \A k \in 1..Len(jobs) : jobs[k] \in {none, delete}
    BY <2>1
  <2> QED
    BY <1>1, <1>6, <2>1, <2>2
<1> QED
  BY <1>2, <1>3, <1>4, <1>5, <1>6

\* A route that moves on keeps the invariant, if the object the refresh has
\* loaded, if any, was earned.
LEMMA MovesInv ==
  ASSUME IInv, NEW q \in Requests, request[q].step = "row_read",
         heap' \in Seq(StoreRecord), Len(heap) <= Len(heap'),
         \A k \in DOMAIN heap : heap'[k] = heap[k],
         \A k \in DOMAIN heap' : k \notin DOMAIN heap =>
           /\ Told(heap'[k].status)
           /\ \A i \in DOMAIN heap'[k].events : Told(heap'[k].events[i])
           /\ OneWriter /\ ~isActiveRun(heap'[k]) => heap[1].terminal,
         NEW o \in 0..Len(heap'),
         NEW saves, RefreshQueues(o, saves),
         OneWriter => saves = <<>>,
         Moves(q, o, heap', saves),
         UNCHANGED <<pipe, row, rows, restarts, failures>>
  PROVE  IInv'
<1>1. /\ TypeOK /\ PointersOK /\ NothingYet /\ EveryOutcomeTold
      /\ OneWriter => Single /\ DeletesLast /\ RowCatchesUp
  BY DEF IInv
<1>2. /\ heap # <<>> /\ heap \in Seq(StoreRecord) /\ chain \in Seq(SaveJob)
      /\ request \in [Requests -> RequestState]
  BY <1>1 DEF NothingYet, TypeOK
<1>3. /\ Len(heap) \in Nat /\ Len(heap') \in Nat /\ 1 \in DOMAIN heap
      /\ DOMAIN heap = 1..Len(heap) /\ DOMAIN heap' = 1..Len(heap')
      /\ 1 \in DOMAIN heap' /\ heap' # <<>> /\ heap'[1] = heap[1] /\ o \in Nat
      /\ \A k \in DOMAIN heap : k \in DOMAIN heap'
  BY <1>2
<1>4. /\ request'[q].step \in {"answered", "cancelling", "refused", "deleted"}
      /\ request'[q].object = o
      /\ request'[q].step = "cancelling" => Kind[q] = "cancel" /\ o # 0
      /\ request'[q].row = request[q].row
      /\ request' \in [Requests -> RequestState]
      /\ \A p \in Requests : p # q => request'[p] = request[p]
      /\ entry' \in {0, o}
  BY DEF Moves
<1>5. PICK jobs : /\ chain' = chain \o jobs
                  /\ \/ jobs = saves
                     \/ /\ o # 0 /\ jobs = saves \o <<Job(o, "delete")>>
                        /\ ~isActiveRun(heap'[o])
  BY DEF Moves
<1>6. /\ jobs \in Seq(SaveJob)
      /\ \A k \in 1..Len(jobs) :
           /\ jobs[k].object = o /\ o # 0
           /\ jobs[k].event \in {"none", "delete"}
           /\ jobs[k].next = "record"
           /\ saves = <<>> => jobs[k].event = "delete"
  <2>1. RouteQueues(o, saves, jobs)
    BY <1>5, Zenon DEF RouteQueues
  <2>2. o \in Nat
    BY <1>3
  <2> QED
    BY <2>1, <2>2, RouteJobs
<1>7. /\ chain' \in Seq(SaveJob)
      /\ DOMAIN chain = 1..Len(chain) /\ DOMAIN chain' = 1..Len(chain')
      /\ Len(chain) \in Nat /\ Len(jobs) \in Nat
      /\ \A i \in 1..Len(chain) : i \in 1..Len(chain') /\ chain'[i] = chain[i]
      /\ \A i \in 1..Len(jobs) : chain'[Len(chain) + i] = jobs[i]
      /\ \A i \in 1..Len(chain') :
              i \in 1..Len(chain) \/ \E k \in 1..Len(jobs) : i = Len(chain) + k
  <2>1. chain' = chain \o jobs /\ jobs \in Seq(SaveJob) /\ Len(jobs) \in Nat
    BY <1>5, <1>6
  <2> QED
    BY <1>2, <2>1, ChainGrows
<1>8. ASSUME NEW i \in DOMAIN chain'
      PROVE  \/ i \in DOMAIN chain /\ chain'[i] = chain[i]
             \/ /\ \A j \in DOMAIN chain : ~(i <= j)
                /\ chain'[i].object = o /\ o # 0 /\ jobs # <<>>
                /\ chain'[i].event \in {"none", "delete"}
                /\ chain'[i].next = "record"
                /\ saves = <<>> => chain'[i].event = "delete"
  <2>1. CASE i \in 1..Len(chain)
    BY <1>7, <2>1
  <2>2. ASSUME NEW k \in 1..Len(jobs), i = Len(chain) + k
        PROVE  /\ \A j \in DOMAIN chain : ~(i <= j)
               /\ chain'[i] = jobs[k] /\ jobs # <<>>
    BY <1>7, <2>2
  <2>3. ASSUME NEW k \in 1..Len(jobs), i = Len(chain) + k
        PROVE  /\ \A j \in DOMAIN chain : ~(i <= j)
               /\ chain'[i].object = o /\ o # 0 /\ jobs # <<>>
               /\ chain'[i].event \in {"none", "delete"}
               /\ chain'[i].next = "record"
               /\ saves = <<>> => chain'[i].event = "delete"
    <3>1. chain'[i] = jobs[k]
      BY <2>2, <2>3
    <3> QED
      BY <1>6, <2>2, <2>3, <3>1
  <2>4. i \in 1..Len(chain')
    BY <1>7
  <2> QED
    BY <1>7, <2>1, <2>3, <2>4, Zenon
<1>9. TypeOK'
  <2>1. entry' \in 0..Len(heap')
    BY <1>3, <1>4
  <2> QED
    BY <1>1, <1>4, <1>7, <2>1 DEF TypeOK
<1>10. PointersOK'
  <2>1. ASSUME NEW i \in DOMAIN chain'
        PROVE  /\ chain'[i].object <= Len(heap')
               /\ chain'[i].next = "event" => chain'[i].event \in StoreEvents
    <3>1. CASE i \in DOMAIN chain /\ chain'[i] = chain[i]
      <4>1. /\ chain[i].object <= Len(heap) /\ chain[i].object \in Nat
            /\ chain[i].next = "event" => chain[i].event \in StoreEvents
        <5>1. chain[i] \in SaveJob
          BY <1>2, <3>1
        <5> QED
          BY <1>1, <3>1, <5>1 DEF PointersOK, SaveJob
      <4> QED
        BY <1>3, <3>1, <4>1
    <3>2. CASE chain'[i].object = o /\ chain'[i].next = "record"
      BY <1>3, <3>2
    <3> QED
      BY <1>8, <3>1, <3>2
  <2>2. ASSUME NEW p \in Requests, request'[p].step = "cancelling"
        PROVE  Kind[p] = "cancel" /\ request'[p].object \in 1..Len(heap')
    <3>1. CASE p = q
      BY <1>3, <1>4, <2>2, <3>1
    <3>2. CASE p # q
      BY <1>1, <1>3, <1>4, <2>2, <3>2 DEF PointersOK
    <3> QED
      BY <3>1, <3>2
  <2> QED
    BY <1>3, <2>1, <2>2 DEF PointersOK
<1>11. NothingYet'
  BY <1>1, <1>2, <1>3 DEF NothingYet
<1>12. /\ CancelDone => CancelDone'
       /\ OneWriter' => OneWriter
  <2>1. CancelDone => CancelDone'
    BY <1>4 DEF CancelDone
  <2> QED
    BY <2>1 DEF OneWriter
<1>13. /\ \A s : Told(s) => ToldNext(s)
       /\ \A r : RowTold(r) => RowToldNext(r)
  BY <1>12, ToldStays
<1>14. EveryOutcomeTold'
  <2>1. \A k \in DOMAIN heap' :
           /\ ToldNext(heap'[k].status)
           /\ \A i \in DOMAIN heap'[k].events : ToldNext(heap'[k].events[i])
    BY <1>1, <1>3, <1>13 DEF EveryOutcomeTold
  <2>2. \A i \in DOMAIN chain' : ToldNext(chain'[i].event)
    <3>1. ToldNext("none") /\ ToldNext("delete")
      BY DEF ToldNext
    <3> QED
      BY <1>1, <1>8, <1>13, <3>1 DEF EveryOutcomeTold
  <2>3. /\ RowToldNext(row') /\ \A i \in DOMAIN rows' : ToldNext(rows'[i])
    BY <1>1, <1>13 DEF EveryOutcomeTold
  <2>4. \A p \in Requests : RowToldNext(request'[p].row)
    BY <1>1, <1>4, <1>13 DEF EveryOutcomeTold
  <2> QED
    BY <2>1, <2>2, <2>3, <2>4, OutcomesTold
<1>15. ASSUME OneWriter' PROVE Single' /\ DeletesLast' /\ RowCatchesUp'
  <2>1. /\ OneWriter /\ saves = <<>>
        /\ Single /\ DeletesLast /\ RowCatchesUp
    BY <1>1, <1>12, <1>15
  <2>2. RecordAgrees(heap[1])'
    BY <1>2, <1>3, <2>1 DEF Single, RecordAgrees
  <2>3. \A k \in DOMAIN heap' : k # 1 /\ ~isActiveRun(heap'[k]) => heap'[1].terminal
    BY <1>3, <2>1 DEF Single
  <2>4. ASSUME NEW i \in DOMAIN chain' PROVE JobAgrees(i)'
    <3>1. CASE i \in DOMAIN chain /\ chain'[i] = chain[i]
      BY <1>3, <2>1, <3>1 DEF Single, JobAgrees
    <3>2. CASE chain'[i].event = "delete"
      BY <3>2 DEF JobAgrees
    <3> QED
      BY <1>8, <2>1, <3>1, <3>2
  <2>5. \A p \in Requests :
          request'[p].step = "row_read" /\ request'[p].row # NoRow =>
            RowAgrees(request[p].row)'
    BY <1>3, <1>4, <2>1 DEF Single, RowAgrees
  <2>6. Single'
    BY <1>3, <2>1, <2>2, <2>3, <2>4, <2>5 DEF Single, RowAgrees
  <2>7. jobs # <<>> => pipe \notin {"none", "text", "render"}
    <3> SUFFICES ASSUME jobs # <<>> PROVE pipe \notin {"none", "text", "render"}
      OBVIOUS
    <3>1. o # 0 /\ ~isActiveRun(heap'[o]) /\ o \in DOMAIN heap'
      BY <1>3, <1>5, <2>1
    <3>2. heap[1].terminal
      <4>1. CASE o # 1
        BY <1>3, <2>3, <3>1, <4>1
      <4>2. CASE o = 1
        BY <1>2, <1>3, <2>1, <3>1, <4>2
           DEF Single, RecordAgrees, isActiveRun, isActiveStatus
      <4> QED
        BY <4>1, <4>2
    <3>3. pipe # "none" /\ pipe \notin {"text", "render"}
      BY <1>1, <1>2, <2>1, <3>2 DEF NothingYet, Single
    <3> QED
      BY <3>3
  <2>8. DeletesLast'
    <3> SUFFICES ASSUME NEW i \in DOMAIN chain', chain'[i].event = "delete"
                 PROVE  /\ pipe \notin {"none", "text", "render"}
                        /\ \A j \in DOMAIN chain' : i <= j => chain'[j].event = "delete"
      BY DEF DeletesLast
    <3>1. CASE i \in DOMAIN chain /\ chain'[i] = chain[i]
      <4>1. /\ pipe \notin {"none", "text", "render"}
            /\ \A j \in DOMAIN chain : i <= j => chain[j].event = "delete"
        BY <2>1, <3>1 DEF DeletesLast
      <4> QED
        BY <1>8, <2>1, <4>1
    <3>2. CASE jobs # <<>> /\ \A j \in DOMAIN chain : ~(i <= j)
      BY <1>8, <2>1, <2>7, <3>2
    <3> QED
      BY <1>8, <3>1, <3>2
  <2>9. RowCatchesUp'
    BY <1>3, <1>7, <2>1 DEF RowCatchesUp
  <2> QED
    BY <2>6, <2>8, <2>9
<1> QED
  BY <1>9, <1>10, <1>11, <1>14, <1>15 DEF IInv

LEMMA ReadsEventsInv == ASSUME IInv, NEW q \in Requests, ReadsEvents(q) PROVE IInv'
<1>1. /\ TypeOK /\ PointersOK /\ NothingYet /\ EveryOutcomeTold
      /\ OneWriter => Single /\ DeletesLast /\ RowCatchesUp
  BY DEF IInv
<1>2. /\ heap # <<>> /\ heap \in Seq(StoreRecord) /\ chain \in Seq(SaveJob)
      /\ request \in [Requests -> RequestState] /\ entry \in 0..Len(heap)
      /\ rows \in Seq(StoreEvents \cup {Absent})
      /\ request[q].step = "row_read"
      /\ UNCHANGED <<pipe, row, rows, restarts, failures>>
      /\ Len(heap) \in Nat /\ DOMAIN heap = 1..Len(heap)
  BY <1>1 DEF ReadsEvents, NothingYet, TypeOK
<1>3. CASE request[q].row = NoRow
  <2>1. heap' = heap /\ Continues(q, entry, heap, <<>>)
    BY <1>3 DEF ReadsEvents
  <2>2. entry \in Nat /\ <<>> \in Seq(SaveJob)
    BY <1>2
  <2>3. Moves(q, entry, heap, <<>>)
    BY <1>2, <2>1, <2>2, RouteMoves
  <2>4. Moves(q, entry, heap', <<>>) /\ entry \in 0..Len(heap')
    BY <1>2, <2>1, <2>3
  <2>5. heap' \in Seq(StoreRecord) /\ Len(heap) <= Len(heap')
    BY <1>2, <2>1
  <2>6. RefreshQueues(entry, <<>>)
    BY DEF RefreshQueues
  <2> QED
    BY <1>2, <2>1, <2>4, <2>5, <2>6, MovesInv
<1>4. CASE request[q].row # NoRow
  <2> DEFINE r == request[q].row
             o == Len(heap) + 1
             new == applyLoadedRows(r, rows, FALSE)
             saves == IF restoredInterruptedRun(r, FALSE) THEN <<Job(o, "none")>>
                                                         ELSE <<>>
  <2>1. heap' = Append(heap, new) /\ Continues(q, o, heap', saves)
    BY <1>4 DEF ReadsEvents
  <2>2. r \in SavedRow
    BY <1>2, <1>4 DEF RequestState
  <2> HIDE DEF r
  <2>3. /\ new \in StoreRecord
        /\ new.status = "failed" \/ new.status = r.snapshot.status
        /\ \A i \in DOMAIN new.events :
             new.events[i] = "failed" \/ \E j \in DOMAIN rows : new.events[i] = rows[j]
    BY <1>2, <2>2, Loaded
  <2>4. ASSUME OneWriter
        PROVE  saves = <<>> /\ (~isActiveRun(new) => heap[1].terminal)
    <3>1. RowAgrees(r)
      BY <1>1, <1>2, <1>4, <2>4 DEF Single, r
    <3> QED
      BY <2>2, <3>1, LoadedInactive DEF RowAgrees
  <2>5. /\ Told(new.status) /\ \A i \in DOMAIN new.events : Told(new.events[i])
    <3>1. Told("failed") /\ Told(r.snapshot.status) /\ \A j \in DOMAIN rows : Told(rows[j])
      BY <1>1, <1>4 DEF EveryOutcomeTold, RowTold, Told, r
    <3> HIDE DEF new
    <3> QED
      BY <2>3, <3>1
  <2> HIDE DEF new
  <2>6. /\ heap' \in Seq(StoreRecord) /\ Len(heap') = Len(heap) + 1
        /\ \A k \in DOMAIN heap : heap'[k] = heap[k]
        /\ heap'[o] = new /\ DOMAIN heap' = 1..(Len(heap) + 1)
    BY <1>2, <2>1, <2>3
  <2>7. o \in Nat /\ o # 0 /\ o \in 0..Len(heap') /\ Len(heap) <= Len(heap')
        /\ \A k \in DOMAIN heap' : k \notin DOMAIN heap => k = o
    BY <1>2, <2>6
  <2>8. RefreshQueues(o, saves)
    BY <2>7 DEF RefreshQueues
  <2>9. saves \in Seq(SaveJob)
    <3>1. Job(o, "none") \in SaveJob
      BY <2>7 DEF Job, SaveJob
    <3> DEFINE job == Job(o, "none")
    <3> HIDE DEF saves, o, job
    <3>2. <<>> \in Seq(SaveJob) /\ (job \in SaveJob => <<job>> \in Seq(SaveJob))
      OBVIOUS
    <3> QED
      BY <2>8, <3>1, <3>2, Zenon DEF job, RefreshQueues
  <2> HIDE DEF saves, o
  <2>10. Moves(q, o, heap', saves)
    BY <1>2, <2>1, <2>7, <2>9, RouteMoves
  <2>11. \A k \in DOMAIN heap' : k \notin DOMAIN heap =>
           /\ Told(heap'[k].status)
           /\ \A i \in DOMAIN heap'[k].events : Told(heap'[k].events[i])
           /\ OneWriter /\ ~isActiveRun(heap'[k]) => heap[1].terminal
    BY <2>4, <2>5, <2>6, <2>7
  <2> QED
    BY <1>2, <2>4, <2>6, <2>7, <2>8, <2>10, <2>11, MovesInv
<1> QED
  BY <1>3, <1>4

LEMMA CancelFinishesInv ==
  ASSUME IInv, NEW q \in Requests, CancelFinishes(q) PROVE IInv'
<1> DEFINE o == request[q].object
           new == cancelRunRecord(heap[o])
<1>1. /\ TypeOK /\ PointersOK /\ NothingYet /\ EveryOutcomeTold
  BY DEF IInv
<1>2. /\ request[q].step = "cancelling" /\ Kind[q] = "cancel"
      /\ o \in 1..Len(heap) /\ heap \in Seq(StoreRecord) /\ chain \in Seq(SaveJob)
      /\ request \in [Requests -> RequestState]
      /\ heap' = [heap EXCEPT ![o] = new]
      /\ chain' = IF Len(new.events) = Len(heap[o].events) THEN chain
                  ELSE Append(chain, Job(o, "cancelled"))
      /\ request' = [request EXCEPT ![q].step = "cancelled"]
      /\ UNCHANGED <<entry, pipe, row, rows, restarts, failures>>
  BY <1>1 DEF CancelFinishes, PointersOK, TypeOK
<1>3. /\ o \in DOMAIN heap /\ heap[o] \in StoreRecord /\ o \in Nat \ {0}
      /\ o <= Len(heap) /\ DOMAIN heap = 1..Len(heap) /\ Len(heap) \in Nat
  BY <1>2
<1>4. /\ new \in StoreRecord
      /\ \/ new.status = "cancelled"
         \/ \E i \in DOMAIN heap[o].events : new.status = heap[o].events[i]
      /\ \A i \in DOMAIN new.events :
           \/ new.events[i] = "cancelled"
           \/ i \in DOMAIN heap[o].events /\ new.events[i] = heap[o].events[i]
  BY <1>3, Cancelled
<1>5. /\ request' \in [Requests -> RequestState]
      /\ request'[q].step = "cancelled" /\ request'[q].row = request[q].row
      /\ \A p \in Requests : p # q => request'[p] = request[p]
  BY <1>2 DEF RequestState
<1>6. CancelDone' /\ ~OneWriter'
  BY <1>2, <1>5 DEF CancelDone, OneWriter
<1>7. /\ \A s : Told(s) => ToldNext(s)
      /\ \A r : RowTold(r) => RowToldNext(r)
      /\ ToldNext("cancelled")
  <2>1. ToldNext("cancelled")
    BY <1>6 DEF ToldNext
  <2> QED
    BY <1>2, <1>6, <2>1, ToldStays
<1> HIDE DEF new, o
<1>8. /\ heap' \in Seq(StoreRecord) /\ Len(heap') = Len(heap)
      /\ DOMAIN heap' = DOMAIN heap /\ heap'[o] = new
      /\ \A k \in DOMAIN heap : k # o => heap'[k] = heap[k]
      /\ heap' # <<>>
  BY <1>2, <1>3, <1>4
<1> DEFINE job == Job(o, "cancelled")
<1>9. /\ job \in SaveJob /\ job.object = o /\ job.event = "cancelled"
      /\ job.next = "record"
  BY <1>3, EventNames DEF Job, SaveJob
<1>10. chain' = chain \/ chain' = Append(chain, job)
  BY <1>2
<1> HIDE DEF job
<1>11. /\ chain' \in Seq(SaveJob)
       /\ \A i \in DOMAIN chain' :
            (i \in DOMAIN chain /\ chain'[i] = chain[i]) \/ chain'[i] = job
  BY <1>2, <1>9, <1>10
<1>12. TypeOK'
  BY <1>1, <1>2, <1>5, <1>8, <1>11 DEF TypeOK
<1>13. PointersOK'
  <2>1. \A i \in DOMAIN chain' :
          /\ chain'[i].object <= Len(heap')
          /\ chain'[i].next = "event" => chain'[i].event \in StoreEvents
    BY <1>1, <1>3, <1>8, <1>9, <1>11 DEF PointersOK
  <2>2. \A p \in Requests : request'[p].step = "cancelling" =>
          Kind[p] = "cancel" /\ request'[p].object \in 1..Len(heap')
    BY <1>1, <1>5, <1>8 DEF PointersOK
  <2> QED
    BY <1>1, <1>2, <1>8, <2>1, <2>2 DEF PointersOK
<1>14. NothingYet'
  <2>1. heap # <<>>
    BY <1>3
  <2> QED
    BY <1>1, <1>2, <1>8, <2>1 DEF NothingYet
<1>15. EveryOutcomeTold'
  <2>1. ToldNext(new.status) /\ \A i \in DOMAIN new.events : ToldNext(new.events[i])
    BY <1>1, <1>3, <1>4, <1>7 DEF EveryOutcomeTold
  <2>2. \A k \in DOMAIN heap' :
           /\ ToldNext(heap'[k].status)
           /\ \A i \in DOMAIN heap'[k].events : ToldNext(heap'[k].events[i])
    BY <1>1, <1>7, <1>8, <2>1 DEF EveryOutcomeTold
  <2>3. \A i \in DOMAIN chain' : ToldNext(chain'[i].event)
    BY <1>1, <1>7, <1>9, <1>11 DEF EveryOutcomeTold
  <2>4. /\ RowToldNext(row') /\ \A i \in DOMAIN rows' : ToldNext(rows'[i])
    BY <1>1, <1>2, <1>7 DEF EveryOutcomeTold
  <2>5. \A p \in Requests : RowToldNext(request'[p].row)
    BY <1>1, <1>5, <1>7 DEF EveryOutcomeTold
  <2> QED
    BY <2>2, <2>3, <2>4, <2>5, OutcomesTold
<1> QED
  BY <1>6, <1>12, <1>13, <1>14, <1>15 DEF IInv

-----------------------------------------------------------------------------
(***************************************************************************)
(* The crash, and the step.                                                *)
(***************************************************************************)
LEMMA RestartInv == ASSUME IInv, Restart PROVE IInv'
<1> DEFINE new == applyLoadedRows(row, rows, TRUE)
           job == Job(1, "none")
<1>1. /\ TypeOK /\ PointersOK /\ NothingYet /\ EveryOutcomeTold
      /\ OneWriter => Single /\ DeletesLast /\ RowCatchesUp
  BY DEF IInv
<1>2. /\ restarts' = restarts + 1 /\ restarts \in Nat
      /\ pipe # "none"
      /\ pipe' = IF pipe \in {"text", "render"} THEN "lost" ELSE pipe
      /\ request' = [q \in Requests |->
           IF request[q].step \in {"row_read", "cancelling"}
           THEN [request[q] EXCEPT !.step = "lost"] ELSE request[q]]
      /\ UNCHANGED <<row, rows, failures>>
      /\ request \in [Requests -> RequestState]
      /\ row \in SavedRow \cup {NoRow} /\ rows \in Seq(StoreEvents \cup {Absent})
  BY <1>1 DEF Restart, TypeOK
<1>3. /\ request' \in [Requests -> RequestState]
      /\ \A q \in Requests :
           /\ request'[q].row = request[q].row
           /\ request'[q].step = IF request[q].step \in {"row_read", "cancelling"}
                                 THEN "lost" ELSE request[q].step
  BY <1>2 DEF RequestState
<1>4. /\ CancelDone => CancelDone'
      /\ OneWriter' => OneWriter
  BY <1>3 DEF CancelDone, OneWriter
<1>5. /\ \A s : Told(s) => ToldNext(s)
      /\ \A r : RowTold(r) => RowToldNext(r)
  <2>1. pipe = "completed" => pipe' = "completed"
    BY <1>2
  <2> QED
    BY <1>4, <2>1, ToldStays
<1>6. /\ pipe' \notin {"none", "text", "render"}
      /\ pipe' \in {"completed", "failed", "stopped", "lost"}
  BY <1>1, <1>2 DEF TypeOK
<1>7. /\ \A q \in Requests : RowToldNext(request'[q].row)
      /\ RowToldNext(row') /\ \A i \in DOMAIN rows' : ToldNext(rows'[i])
  BY <1>1, <1>2, <1>3, <1>5 DEF EveryOutcomeTold
<1>8. /\ \A q \in Requests : request'[q].step \notin {"row_read", "cancelling"}
      /\ restarts' \in Nat /\ restarts' # 0 /\ failures' \in Nat
  BY <1>1, <1>2, <1>3 DEF TypeOK
<1>9. /\ heap' = IF row = NoRow THEN <<>> ELSE <<new>>
      /\ entry' = IF row = NoRow THEN 0 ELSE 1
      /\ chain' \in {<<>>, <<job>>}
      /\ row = NoRow => chain' = <<>>
  BY DEF Restart
<1>10. job \in SaveJob /\ job.object = 1 /\ job.event = "none" /\ job.next = "record"
  BY DEF Job, SaveJob
<1> HIDE DEF job
<1>11. /\ chain' \in Seq(SaveJob)
       /\ \A i \in DOMAIN chain' : chain'[i] = job
  <2>1. CASE chain' = <<>>
    BY <2>1
  <2>2. CASE chain' = <<job>>
    BY <1>10, <2>2
  <2> QED
    BY <1>9, <2>1, <2>2
<1>12. CASE row = NoRow
  <2>1. /\ heap' = <<>> /\ Len(heap') = 0 /\ DOMAIN heap' = {} /\ entry' = 0
        /\ chain' = <<>> /\ DOMAIN chain' = {} /\ heap' \in Seq(StoreRecord)
        /\ row' = NoRow
    BY <1>2, <1>9, <1>12
  <2>2. TypeOK'
    BY <1>2, <1>3, <1>6, <1>8, <1>11, <2>1 DEF TypeOK
  <2>3. PointersOK' /\ NothingYet'
    BY <1>6, <1>8, <2>1 DEF PointersOK, NothingYet
  <2>4. EveryOutcomeTold'
    BY <1>7, <2>1, OutcomesTold
  <2>5. ASSUME OneWriter' PROVE Single' /\ DeletesLast' /\ RowCatchesUp'
    <3>1. Single
      BY <1>1, <1>4, <2>5
    <3> QED
      BY <1>2, <1>6, <1>8, <1>12, <2>1, <3>1
         DEF Single, DeletesLast, RowCatchesUp
  <2> QED
    BY <2>2, <2>3, <2>4, <2>5 DEF IInv
<1>13. CASE row # NoRow
  <2>1. row \in SavedRow
    BY <1>2, <1>13
  <2>2. /\ new \in StoreRecord
        /\ new.status = "failed" \/ new.status = row.snapshot.status
        /\ \A i \in DOMAIN new.events :
             new.events[i] = "failed" \/ \E j \in DOMAIN rows : new.events[i] = rows[j]
    BY <1>2, <2>1, Loaded
  <2>3. ASSUME OneWriter'
        PROVE  /\ Single /\ CoherentRows(row, rows)
               /\ new.terminal /\ RecordAgrees(new)
               /\ row.completedAt => new.status = row.status
    <3>1. Single
      BY <1>1, <1>4, <2>3
    <3>2. CoherentRows(row, rows)
      BY <1>13, <3>1 DEF CoherentRows, Single, RowAgrees
    <3> QED
      BY <1>2, <2>1, <3>1, <3>2, LoadedMarked
  <2> HIDE DEF new
  <2>4. /\ heap' = <<new>> /\ Len(heap') = 1 /\ DOMAIN heap' = 1..1 /\ heap'[1] = new
        /\ heap' \in Seq(StoreRecord) /\ heap' # <<>> /\ entry' = 1
        /\ \A k \in DOMAIN heap' : k = 1
    BY <1>9, <1>13, <2>2
  <2>5. TypeOK'
    BY <1>2, <1>3, <1>6, <1>8, <1>11, <2>4 DEF TypeOK
  <2>6. PointersOK'
    <3>1. \A i \in DOMAIN chain' :
            /\ chain'[i].object <= Len(heap')
            /\ chain'[i].next = "event" => chain'[i].event \in StoreEvents
      BY <1>10, <1>11, <2>4
    <3> QED
      BY <1>6, <1>8, <3>1 DEF PointersOK
  <2>7. NothingYet'
    BY <1>6, <2>4 DEF NothingYet
  <2>8. EveryOutcomeTold'
    <3>1. /\ ToldNext("failed") /\ ToldNext("none")
          /\ ToldNext(row.snapshot.status)
          /\ \A j \in DOMAIN rows : ToldNext(rows[j])
      BY <1>2, <1>7, <1>13 DEF ToldNext, RowToldNext
    <3>2. ToldNext(new.status) /\ \A i \in DOMAIN new.events : ToldNext(new.events[i])
      BY <2>2, <3>1
    <3>3. \A k \in DOMAIN heap' :
             /\ ToldNext(heap'[k].status)
             /\ \A i \in DOMAIN heap'[k].events : ToldNext(heap'[k].events[i])
      BY <2>4, <3>2
    <3>4. \A i \in DOMAIN chain' : ToldNext(chain'[i].event)
      BY <1>10, <1>11, <3>1
    <3> QED
      BY <1>7, <3>3, <3>4, OutcomesTold
  <2>9. ASSUME OneWriter' PROVE Single' /\ DeletesLast' /\ RowCatchesUp'
    <3>1. /\ Single /\ CoherentRows(row, rows)
          /\ new.terminal /\ RecordAgrees(new)
          /\ row.completedAt => new.status = row.status
      BY <2>3, <2>9
    <3>2. RecordAgrees(heap[1])'
      BY <2>4, <3>1 DEF RecordAgrees
    <3>3. RowAgrees(row)'
      BY <1>2, <2>4, <3>1 DEF CoherentRows, RowAgrees
    <3>4. \A i \in DOMAIN rows' :
            isTerminalRunEvent(rows'[i]) => row' # NoRow /\ row'.status = rows'[i]
      BY <1>2, <1>13, <3>1 DEF CoherentRows
    <3>5. \A i \in DOMAIN chain' : JobAgrees(i)'
      BY <1>10, <1>11 DEF JobAgrees, isTerminalRunEvent, TerminalEvents
    <3>6. Single'
      BY <1>6, <1>8, <2>4, <3>2, <3>3, <3>4, <3>5 DEF Single
    <3>7. DeletesLast'
      BY <1>10, <1>11 DEF DeletesLast
    <3>8. RowCatchesUp'
      BY <1>8 DEF RowCatchesUp
    <3> QED
      BY <3>6, <3>7, <3>8
  <2> QED
    BY <2>5, <2>6, <2>7, <2>8, <2>9 DEF IInv
<1> QED
  BY <1>12, <1>13

LEMMA StepInv == IInv /\ [Next]_vars => IInv'
<1> SUFFICES ASSUME IInv, [Next]_vars PROVE IInv'
  OBVIOUS
<1>1. CASE StartRun
  BY <1>1, StartRunInv
<1>2. CASE Saves
  BY <1>2, SaveRecordInv, SaveEventInv, DeleteRowInv, SaveFailsInv DEF Saves
<1>3. CASE Pipeline
  BY <1>3, OpensSecondStageInv, CompletesInv, FailsInv, StopsInv DEF Pipeline
<1>4. CASE Restart
  BY <1>4, RestartInv
<1>5. ASSUME NEW q \in Requests, Request(q) PROVE IInv'
  BY <1>5, ReadsRowInv, ReadsEventsInv, CancelFinishesInv DEF Request
<1>6. CASE UNCHANGED vars
  BY <1>6 DEF vars, IInv, TypeOK, PointersOK, NothingYet, EveryOutcomeTold, Told,
     RowTold, CancelDone, OneWriter, Single, RecordAgrees, RowAgrees, JobAgrees,
     DeletesLast, RowCatchesUp
<1> QED
  BY <1>1, <1>2, <1>3, <1>4, <1>5, <1>6 DEF Next

LEMMA Invariance == Spec => []IInv
BY InitInv, StepInv, PTL DEF Spec

-----------------------------------------------------------------------------
(***************************************************************************)
(* The theorems.                                                           *)
(***************************************************************************)
\* The records, the chain, both tables and the requests keep their types, for
\* any number of requests, crashes and rejected saves.
THEOREM TypeCorrect == Spec => []TypeOK
<1>1. IInv => TypeOK
  BY DEF IInv
<1> QED
  BY <1>1, Invariance, PTL

\* OutcomeIsTrue in every reachable state: a row of run_records says completed
\* only of a run whose pipeline completed, and cancelled only of one a user
\* cancelled, whatever was loaded, lost or saved late in between.
THEOREM OutcomeAlwaysTrue == Spec => []OutcomeIsTrue
<1>1. IInv => OutcomeIsTrue
  BY DEF IInv, EveryOutcomeTold, RowTold, Told, CancelDone, OutcomeIsTrue
<1> QED
  BY <1>1, Invariance, PTL

\* The row is written by SaveRecord, deleted by DeleteRow, and touched by no
\* other step.
LEMMA RowWritten ==
  ASSUME [Next]_vars
  PROVE  SaveRecord \/ DeleteRow \/ row' = row
BY DEF Next, Saves, Pipeline, Request, vars, StartRun, SaveEvent, SaveFails,
   OpensSecondStage, Completes, Fails, Stops, Restart, ReadsRow, ReadsEvents,
   CancelFinishes

\* A row that has ended is loaded as a run that is over.
LEMMA EndedIsInactive ==
  ASSUME NEW r \in SavedRow, r.completedAt, NEW evs
  PROVE  ~isActiveRun(applyLoadedRows(r, evs, FALSE))
<1>1. CASE restoredInterruptedRun(r, FALSE)
  <2>1. applyLoadedRows(r, evs, FALSE).terminal = TRUE
    BY <1>1 DEF applyLoadedRows
  <2> QED
    BY <2>1 DEF isActiveRun
<1>2. CASE ~restoredInterruptedRun(r, FALSE)
  <2>1. applyLoadedRows(r, evs, FALSE).terminal =
          (r.status \in TerminalEvents \/ r.completedAt)
    BY <1>2 DEF applyLoadedRows
  <2> QED
    BY <2>1 DEF isActiveRun
<1> QED
  BY <1>1, <1>2

\* EndedStaysEnded for every behaviour: once the tables know a run as ended, no
\* save of a record still running opens it again, and while nobody cancels it
\* the outcome saved first is the outcome.
THEOREM EndedAlwaysStaysEnded == Spec => EndedStaysEnded
<1> DEFINE Stays == Ended(row) /\ row' # NoRow =>
             /\ Ended(row')
             /\ ~isActiveRun(applyLoadedRows(row', rows', FALSE))
             /\ OneWriter => row'.status = row.status
<1>1. IInv /\ [Next]_vars => [Stays]_vars
  <2> SUFFICES ASSUME IInv, [Next]_vars, Ended(row), row' # NoRow
               PROVE  /\ Ended(row')
                      /\ ~isActiveRun(applyLoadedRows(row', rows', FALSE))
                      /\ OneWriter => row'.status = row.status
    OBVIOUS
  <2>1. TypeOK /\ PointersOK /\ (OneWriter => Single) /\ TypeOK'
    BY StepInv DEF IInv
  <2>2. row \in SavedRow /\ row.completedAt /\ row # NoRow /\ row' \in SavedRow
    BY <2>1 DEF Ended, TypeOK
  <2>3. row'.completedAt /\ (OneWriter => row'.status = row.status)
    <3>1. CASE SaveRecord
      <4>1. /\ chain # <<>> /\ chain[1].event # "delete"
            /\ row' = upsertRecord(heap[chain[1].object], chain[1].event)
            /\ heap[chain[1].object] \in StoreRecord
        BY <2>1, <3>1, HeadJob DEF SaveRecord
      <4>2. row'.completedAt
        BY <2>1, <4>1, Upserted DEF TypeOK
      <4>3. ASSUME OneWriter PROVE row'.status = row.status
        <5>1. row'.status = heap[1].status
          BY <2>1, <4>1, <4>3, SaveAgrees
        <5>2. RowAgrees(row)
          BY <2>1, <2>2, <4>3 DEF Single
        <5> QED
          BY <2>2, <5>1, <5>2 DEF RowAgrees
      <4> QED
        BY <4>2, <4>3
    <3>2. CASE DeleteRow
      BY <3>2 DEF DeleteRow
    <3>3. CASE row' = row
      BY <2>2, <3>3
    <3> QED
      BY <3>1, <3>2, <3>3, RowWritten
  <2> QED
    BY <2>2, <2>3, EndedIsInactive DEF Ended
<1> QED
  BY <1>1, Invariance, PTL DEF Spec, EndedStaysEnded

Deleted == \E q \in Requests : request[q].step = "deleted"

Deletes == \E i \in DOMAIN chain : chain[i].event = "delete"

\* Once the run is deleted its pipeline is over, and without a row nothing waits
\* to be saved, or the deletion waits with it.
Gone ==
  OneWriter /\ Deleted =>
    /\ pipe \notin {"none", "text", "render"}
    /\ row = NoRow => chain = <<>> \/ Deletes

\* Behind a deletion there are only deletions, and a deletion that waits behind
\* the head is still there when the head has gone.
LEMMA DeletesInTail ==
  ASSUME chain \in Seq(SaveJob), chain # <<>>, chain' = Tail(chain),
         DeletesLast, Deletes
  PROVE  chain' = <<>> \/ Deletes'
<1>1. /\ chain' \in Seq(SaveJob) /\ Len(chain') = Len(chain) - 1
      /\ DOMAIN chain = 1..Len(chain) /\ DOMAIN chain' = 1..Len(chain')
      /\ \A i \in 1..Len(chain') : chain'[i] = chain[i + 1] /\ i + 1 \in DOMAIN chain
  OBVIOUS
<1>2. PICK i \in DOMAIN chain : chain[i].event = "delete"
  BY DEF Deletes
<1>3. CASE i = 1
  <2> SUFFICES ASSUME chain' # <<>> PROVE Deletes'
    OBVIOUS
  <2>1. 1 \in DOMAIN chain' /\ chain'[1] = chain[2] /\ 2 \in DOMAIN chain
    BY <1>1
  <2>2. chain[2].event = "delete"
    BY <1>2, <1>3, <2>1 DEF DeletesLast
  <2> QED
    BY <2>1, <2>2 DEF Deletes
<1>4. CASE i # 1
  <2>1. i - 1 \in DOMAIN chain' /\ chain'[i - 1] = chain[i]
    BY <1>1, <1>4
  <2> QED
    BY <1>2, <2>1 DEF Deletes
<1> QED
  BY <1>3, <1>4

LEMMA SavesGone == ASSUME IInv, Gone, Saves PROVE Gone'
<1> SUFFICES ASSUME OneWriter', Deleted'
             PROVE  /\ pipe' \notin {"none", "text", "render"}
                    /\ row' = NoRow => chain' = <<>> \/ Deletes'
  BY DEF Gone
<1>1. /\ chain # <<>> /\ chain \in Seq(SaveJob) /\ TypeOK /\ PointersOK
      /\ UNCHANGED <<pipe, request>>
  BY DEF IInv, TypeOK, Saves, SaveRecord, SaveEvent, DeleteRow, SaveFails
<1>2. OneWriter /\ Deleted
  BY <1>1 DEF OneWriter, CancelDone, Deleted
<1>3. /\ pipe' \notin {"none", "text", "render"} /\ DeletesLast
      /\ row = NoRow => Deletes
  BY <1>1, <1>2 DEF Gone, IInv
<1>4. CASE SaveRecord
  <2>1. row' = upsertRecord(heap[chain[1].object], chain[1].event)
        /\ heap[chain[1].object] \in StoreRecord
    BY <1>1, <1>4, HeadJob DEF SaveRecord
  <2>2. row' \in SavedRow
    BY <1>1, <2>1, Upserted DEF TypeOK
  <2> QED
    BY <1>3, <2>2, RowsDiffer
<1>5. CASE SaveEvent
  BY <1>3, <1>5 DEF SaveEvent
<1>6. CASE DeleteRow
  <2>1. chain' = Tail(chain) /\ Deletes
    BY <1>1, <1>6, HeadJob DEF DeleteRow, Deletes
  <2> QED
    BY <1>1, <1>3, <2>1, DeletesInTail
<1>7. CASE SaveFails
  <2>1. chain' = Tail(chain) /\ row' = row
    BY <1>7 DEF SaveFails
  <2> QED
    BY <1>1, <1>3, <2>1, DeletesInTail
<1> QED
  BY <1>4, <1>5, <1>6, <1>7 DEF Saves

\* A refresh queues nothing while nobody cancels, so the routes add only
\* deletions to the chain.
LEMMA ReadsEventsGone ==
  ASSUME IInv, Gone, NEW q \in Requests, ReadsEvents(q)
  PROVE  Gone'
<1> SUFFICES ASSUME OneWriter', Deleted'
             PROVE  /\ pipe' \notin {"none", "text", "render"}
                    /\ row' = NoRow => chain' = <<>> \/ Deletes'
  BY DEF Gone
<1>1. /\ chain \in Seq(SaveJob) /\ heap \in Seq(StoreRecord) /\ entry \in Nat
      /\ request \in [Requests -> RequestState] /\ Len(heap) \in Nat
      /\ request[q].step = "row_read" /\ UNCHANGED <<pipe, row>>
  BY DEF IInv, TypeOK, ReadsEvents
<1>2. PICK o, objects, saves :
        /\ o \in Nat /\ Continues(q, o, objects, saves)
        /\ saves = <<>> \/ (/\ request[q].row # NoRow
                            /\ restoredInterruptedRun(request[q].row, FALSE)
                            /\ saves = <<Job(o, "none")>>)
  <2>1. CASE request[q].row = NoRow
    BY <1>1, <2>1 DEF ReadsEvents
  <2>2. CASE request[q].row # NoRow
    <3> DEFINE n == Len(heap) + 1
               again == restoredInterruptedRun(request[q].row, FALSE)
               jobs == IF again THEN <<Job(n, "none")>> ELSE <<>>
    <3>1. n \in Nat
      BY <1>1
    <3>2. Continues(q, n, heap', jobs)
      BY <2>2 DEF ReadsEvents
    <3>3. jobs = <<>> \/ (again /\ jobs = <<Job(n, "none")>>)
      OBVIOUS
    <3> HIDE DEF n, jobs
    <3> QED
      BY <2>2, <3>1, <3>2, <3>3
  <2> QED
    BY <2>1, <2>2
<1>3. \A p \in Requests : p # q => request'[p] = request[p]
  BY <1>1, <1>2 DEF Continues
<1>4. OneWriter
  <2> SUFFICES ASSUME NEW p \in Requests, Kind[p] = "cancel",
                      request[p].step = "cancelled"
               PROVE  FALSE
    BY DEF OneWriter, CancelDone
  <2>1. request'[p] = request[p]
    BY <1>1, <1>3
  <2> QED
    BY <2>1 DEF OneWriter, CancelDone
<1>5. saves = <<>>
  <2> SUFFICES ASSUME request[q].row # NoRow,
                      restoredInterruptedRun(request[q].row, FALSE)
               PROVE  FALSE
    BY <1>2
  <2>1. RowAgrees(request[q].row)
    BY <1>1, <1>4 DEF IInv, Single
  <2> QED
    BY <2>1 DEF RowAgrees, restoredInterruptedRun, isActiveStatus, TerminalEvents
<1>6. CASE request'[q].step = "deleted"
  <2>1. o # 0 /\ chain' = chain \o saves \o <<Job(o, "delete")>>
    BY <1>1, <1>2, <1>6 DEF Continues, RequestState
  <2> DEFINE delete == Job(o, "delete")
  <2>2. delete \in SaveJob /\ delete.event = "delete"
    BY <1>2, <2>1 DEF Job, SaveJob
  <2> HIDE DEF delete
  <2>3. chain' = chain \o <<delete>>
    <3>1. chain \o saves = chain
      <4>1. chain \o <<>> = chain
        BY <1>1, ConcatEmptySeq
      <4> QED
        BY <1>5, <4>1
    <3>2. chain' = (chain \o saves) \o <<delete>>
      BY <2>1 DEF delete
    <3> QED
      BY <3>1, <3>2
  <2>4. Len(chain') \in DOMAIN chain' /\ chain'[Len(chain')] = delete
    BY <1>1, <2>2, <2>3
  <2>5. Deletes'
    BY <2>2, <2>4 DEF Deletes
  <2>6. DeletesLast'
    <3>1. IInv'
      BY StepInv DEF Next, Request
    <3> QED
      BY <3>1 DEF IInv
  <2> QED
    BY <2>5, <2>6 DEF Deletes, DeletesLast
<1>7. CASE request'[q].step # "deleted"
  <2>1. Deleted
    BY <1>3, <1>7 DEF Deleted
  <2>2. chain' = chain
    <3>1. chain' = chain \o saves
      BY <1>1, <1>2, <1>7 DEF Continues, RequestState
    <3> QED
      BY <1>1, <1>5, <3>1
  <2> QED
    BY <1>1, <1>4, <2>1, <2>2 DEF Gone, Deletes
<1> QED
  BY <1>6, <1>7

LEMMA StepGone == IInv /\ Gone /\ [Next]_vars => Gone'
<1> SUFFICES ASSUME IInv, Gone, [Next]_vars PROVE Gone'
  OBVIOUS
<1>1. CASE StartRun
  BY <1>1 DEF StartRun, Gone, OneWriter, CancelDone, Deleted
<1>2. CASE Pipeline
  BY <1>2 DEF Pipeline, OpensSecondStage, Completes, Fails, Stops, Gone, OneWriter,
     CancelDone, Deleted
<1>3. CASE Restart
  <2>1. /\ \A q \in Requests :
             /\ request'[q].step = "cancelled" <=> request[q].step = "cancelled"
             /\ request'[q].step = "deleted" <=> request[q].step = "deleted"
        /\ pipe # "none" /\ pipe' = IF pipe \in {"text", "render"} THEN "lost" ELSE pipe
        /\ row' = row /\ (row = NoRow => chain' = <<>>)
    BY <1>3 DEF Restart, IInv, TypeOK, RequestState
  <2> QED
    BY <2>1 DEF Gone
<1>4. ASSUME NEW q \in Requests, ReadsRow(q) PROVE Gone'
  <2>1. /\ \A p \in Requests :
             /\ request'[p].step = "cancelled" <=> request[p].step = "cancelled"
             /\ request'[p].step = "deleted" <=> request[p].step = "deleted"
        /\ UNCHANGED <<pipe, row, chain>>
    BY <1>4 DEF ReadsRow, IInv, TypeOK, RequestState
  <2> QED
    BY <2>1 DEF Gone, OneWriter, CancelDone, Deleted, Deletes
<1>5. ASSUME NEW q \in Requests, CancelFinishes(q) PROVE Gone'
  <2>1. CancelDone'
    BY <1>5 DEF CancelFinishes, IInv, TypeOK, PointersOK, RequestState, CancelDone
  <2> QED
    BY <2>1 DEF Gone, OneWriter
<1>6. CASE UNCHANGED vars
  BY <1>6 DEF vars, Gone, OneWriter, CancelDone, Deleted, Deletes
<1> QED
  BY <1>1, <1>2, <1>3, <1>4, <1>5, <1>6, SavesGone, ReadsEventsGone DEF Next, Request

LEMMA GoneInvariance == Spec => []Gone
<1>1. Init => Gone
  BY DEF Init, Gone, Deleted
<1> QED
  BY <1>1, StepGone, Invariance, PTL DEF Spec

\* DeletedForGood for every behaviour: while no cancel has closed a record, the
\* row of a run that was deleted is not written again once the deletion has
\* been run, by any save of the pipeline, a refresh or a restart.
THEOREM DeletionIsForGood == Spec => DeletedForGood
<1> DEFINE ForGood == row = NoRow /\ row' # NoRow /\ OneWriter' =>
             \/ \A q \in Requests : request[q].step # "deleted"
             \/ \E i \in DOMAIN chain : chain[i].event = "delete"
<1>1. Gone /\ [Next]_vars => [ForGood]_vars
  <2> SUFFICES ASSUME Gone, [Next]_vars, row = NoRow, row' # NoRow, OneWriter',
                      Deleted
               PROVE  Deletes
    BY DEF Deleted, Deletes
  <2>1. SaveRecord
    BY RowWritten DEF DeleteRow
  <2>2. chain # <<>> /\ OneWriter
    BY <2>1 DEF SaveRecord, OneWriter, CancelDone
  <2> QED
    BY <2>2 DEF Gone
<1> QED
  BY <1>1, GoneInvariance, PTL DEF Spec, DeletedForGood

-----------------------------------------------------------------------------
(***************************************************************************)
(* What the row tells, whoever has written it: IInv speaks of records and  *)
(* rows of one writer, EndsOK of all of them.                              *)
(***************************************************************************)
\* A record is closed when its status says so.
ClosedAlike(rec) == rec.terminal <=> rec.status \in TerminalEvents

\* An end in a row is one in its snapshot, and dated.
EndsAlike(r) ==
  r # NoRow =>
    /\ r.status \in TerminalEvents => r.snapshot.status \in TerminalEvents
    /\ r.snapshot.status \in TerminalEvents => r.completedAt

\* The end the pipeline's record has is the pipeline's, until a restart.
OwnEnd ==
  OneWriter /\ restarts = 0 /\ heap # <<>> /\ heap[1].terminal =>
    heap[1].status = pipe

EndsOK ==
  /\ \A o \in DOMAIN heap : ClosedAlike(heap[o])
  /\ \A i \in DOMAIN chain :
       isTerminalRunEvent(chain[i].event) => heap[chain[i].object].terminal
  /\ EndsAlike(row)
  /\ \A q \in Requests : EndsAlike(request[q].row)
  /\ OwnEnd

LEMMA InitEnds == Init => EndsOK
<1> SUFFICES ASSUME Init PROVE EndsOK
  OBVIOUS
<1>1. /\ heap = <<>> /\ chain = <<>> /\ row = NoRow
      /\ \A q \in Requests : request[q].row = NoRow
  BY DEF Init
<1> QED
  BY <1>1 DEF EndsOK, EndsAlike, OwnEnd

\* A row whose ends are alike is loaded as a record that is closed alike.
LEMMA LoadedAlike ==
  ASSUME NEW r \in SavedRow, EndsAlike(r), NEW evs, NEW mark \in BOOLEAN
  PROVE  ClosedAlike(applyLoadedRows(r, evs, mark))
<1>1. /\ r.status \in Statuses /\ r.snapshot.status \in Statuses
      /\ r.completedAt \in BOOLEAN /\ r # NoRow
  BY RowsDiffer DEF SavedRow
<1>2. CASE restoredInterruptedRun(r, mark)
  <2>1. /\ applyLoadedRows(r, evs, mark).status = "failed"
        /\ applyLoadedRows(r, evs, mark).terminal = TRUE
    BY <1>2 DEF applyLoadedRows
  <2> QED
    BY <2>1 DEF ClosedAlike, TerminalEvents
<1>3. CASE ~restoredInterruptedRun(r, mark)
  <2>1. /\ applyLoadedRows(r, evs, mark).status = r.snapshot.status
        /\ applyLoadedRows(r, evs, mark).terminal =
             (r.status \in TerminalEvents \/ r.completedAt)
    BY <1>3 DEF applyLoadedRows
  <2>2. r.completedAt => r.status \in TerminalEvents
    BY <1>1, <1>3 DEF restoredInterruptedRun, isActiveStatus, Statuses
  <2> QED
    BY <1>1, <2>1, <2>2 DEF ClosedAlike, EndsAlike
<1> QED
  BY <1>2, <1>3

\* What the head of the chain saves of such a record is such a row.
LEMMA SavedAlike ==
  ASSUME IInv, EndsOK, SaveRecord
  PROVE  /\ row' \in SavedRow /\ EndsAlike(row')
         /\ row'.completedAt \/ row'.snapshot.status \notin TerminalEvents
         /\ Ended(row) => row'.completedAt
<1> DEFINE e == chain[1].event
           rec == heap[chain[1].object]
<1>1. TypeOK /\ PointersOK /\ chain # <<>> /\ Head(chain) = chain[1]
      /\ row' = upsertRecord(rec, e)
      /\ 1 \in DOMAIN chain /\ chain[1].object \in DOMAIN heap
      /\ rec \in StoreRecord
  <2>1. TypeOK /\ PointersOK /\ chain # <<>>
    BY DEF IInv, SaveRecord
  <2>2. heap \in Seq(StoreRecord)
    BY <2>1 DEF TypeOK
  <2> QED
    BY <2>1, <2>2, HeadJob DEF SaveRecord
<1>2. /\ ClosedAlike(rec)
      /\ isTerminalRunEvent(e) => rec.terminal
  BY <1>1 DEF EndsOK
<1>3. rec.terminal \in BOOLEAN /\ row \in SavedRow \cup {NoRow}
  BY <1>1 DEF StoreRecord, TypeOK
<1> HIDE DEF rec, e
<1>4. /\ row' \in SavedRow
      /\ row'.status = readPersistedStatus(rec, e)
      /\ row'.snapshot.status = rec.status
      /\ row'.completedAt = (rec.terminal \/ isTerminalRunEvent(e) \/ Ended(row))
  BY <1>1, <1>3, Upserted
<1>5. row'.status \in TerminalEvents => rec.terminal
  BY <1>1, <1>2, <1>4, Persisted DEF ClosedAlike
<1> QED
  BY <1>2, <1>4, <1>5 DEF ClosedAlike, EndsAlike

-----------------------------------------------------------------------------
\* A step that makes and changes no record and no request keeps EndsOK, if its
\* jobs were there before.
LEMMA QuietEnds ==
  ASSUME IInv, EndsOK, UNCHANGED <<heap, pipe, request, restarts>>, EndsAlike(row'),
         \A i \in DOMAIN chain' : \E j \in DOMAIN chain :
           chain'[i].object = chain[j].object /\ chain'[i].event = chain[j].event
  PROVE  EndsOK'
<1>1. OneWriter' = OneWriter
  BY ToldUnchanged
<1>2. OwnEnd'
  BY <1>1 DEF EndsOK, OwnEnd
<1>3. \A i \in DOMAIN chain' :
        isTerminalRunEvent(chain'[i].event) => heap'[chain'[i].object].terminal
  BY DEF EndsOK
<1>4. /\ \A o \in DOMAIN heap' : ClosedAlike(heap'[o])
      /\ \A q \in Requests : EndsAlike(request'[q].row)
  BY DEF EndsOK
<1> QED
  BY <1>2, <1>3, <1>4 DEF EndsOK, EndsAlike, ClosedAlike

LEMMA SavesEnds ==
  ASSUME IInv, EndsOK, Saves
  PROVE  EndsOK'
<1>1. TypeOK /\ PointersOK /\ EndsAlike(row)
  BY DEF IInv, EndsOK
<1>2. chain # <<>> /\ chain \in Seq(SaveJob)
      /\ UNCHANGED <<heap, pipe, request, restarts>>
  BY <1>1 DEF Saves, SaveRecord, SaveEvent, DeleteRow, SaveFails, TypeOK
<1>3. \A i \in DOMAIN chain' : \E j \in DOMAIN chain :
        chain'[i].object = chain[j].object /\ chain'[i].event = chain[j].event
  <2>1. CASE chain' = Tail(chain)
    <3>1. \A i \in DOMAIN Tail(chain) :
            i + 1 \in DOMAIN chain /\ Tail(chain)[i] = chain[i + 1]
      BY <1>2
    <3> QED
      BY <2>1, <3>1
  <2>2. CASE chain' = [chain EXCEPT ![1].next = "event"]
    <3>1. /\ DOMAIN chain' = DOMAIN chain
          /\ \A i \in DOMAIN chain : chain[i] \in SaveJob
      BY <1>2, <2>2
    <3>2. \A i \in DOMAIN chain :
            chain'[i].object = chain[i].object /\ chain'[i].event = chain[i].event
      BY <2>2, <3>1 DEF SaveJob
    <3> QED
      BY <3>1, <3>2
  <2> QED
    BY <2>1, <2>2 DEF Saves, SaveRecord, SaveEvent, DeleteRow, SaveFails
<1>4. EndsAlike(row')
  <2>1. CASE SaveRecord
    BY <2>1, SavedAlike
  <2>2. CASE DeleteRow
    BY <2>2 DEF DeleteRow, EndsAlike
  <2>3. CASE SaveEvent \/ SaveFails
    BY <1>1, <2>3 DEF SaveEvent, SaveFails
  <2> QED
    BY <2>1, <2>2, <2>3 DEF Saves
<1> QED
  BY <1>2, <1>3, <1>4, QuietEnds

\* The pipeline's record moves on.
LEMMA BurstEnds ==
  ASSUME IInv, EndsOK, heap # <<>>, ~heap[1].terminal,
         NEW new \in StoreRecord, ClosedAlike(new), NEW evs \in Seq(StoreEvents),
         \A i \in 1..Len(evs) : isTerminalRunEvent(evs[i]) => new.terminal,
         heap' = [heap EXCEPT ![1] = new],
         chain' = chain \/ chain' = chain \o SaveOf(1, evs),
         UNCHANGED <<row, request, restarts>>,
         new.terminal => new.status = pipe'
  PROVE  EndsOK'
<1>1. heap \in Seq(StoreRecord) /\ chain \in Seq(SaveJob) /\ PointersOK
  BY DEF IInv, TypeOK
<1>2. /\ 1 \in DOMAIN heap /\ DOMAIN heap' = DOMAIN heap /\ heap'[1] = new
      /\ \A k \in DOMAIN heap : k # 1 => heap'[k] = heap[k]
  BY <1>1
<1>3. \A o \in DOMAIN heap' : ClosedAlike(heap'[o])
  BY <1>2 DEF EndsOK
<1>4. \A k \in DOMAIN heap : heap[k].terminal => heap'[k].terminal
  BY <1>2
<1>5. \A i \in DOMAIN chain : chain[i].object \in DOMAIN heap
  <2>1. \A i \in DOMAIN chain : chain[i] \in SaveJob /\ chain[i].object <= Len(heap)
    BY <1>1 DEF PointersOK
  <2> QED
    BY <1>1, <2>1 DEF SaveJob
<1>6. \A i \in DOMAIN chain' :
        isTerminalRunEvent(chain'[i].event) => heap'[chain'[i].object].terminal
  <2>1. \A i \in DOMAIN chain :
          isTerminalRunEvent(chain[i].event) => heap'[chain[i].object].terminal
    BY <1>4, <1>5 DEF EndsOK
  <2>2. CASE chain' = chain \o SaveOf(1, evs)
    <3> DEFINE jobs == SaveOf(1, evs)
    <3>1. /\ jobs \in Seq(SaveJob) /\ Len(jobs) = Len(evs)
          /\ \A i \in 1..Len(evs) : jobs[i].object = 1 /\ jobs[i].event = evs[i]
      BY BurstJobs
    <3> HIDE DEF jobs
    <3>2. /\ DOMAIN chain = 1..Len(chain) /\ DOMAIN chain' = 1..Len(chain')
          /\ \A i \in 1..Len(chain) : chain'[i] = chain[i]
          /\ \A k \in 1..Len(jobs) : chain'[Len(chain) + k] = jobs[k]
          /\ \A i \in 1..Len(chain') :
               i \in 1..Len(chain) \/ \E k \in 1..Len(jobs) : i = Len(chain) + k
      <4>1. chain' = chain \o jobs
        BY <2>2 DEF jobs
      <4> QED
        BY <1>1, <3>1, <4>1, ChainGrows
    <3>3. \A i \in DOMAIN chain' :
            \/ i \in DOMAIN chain /\ chain'[i] = chain[i]
            \/ \E k \in 1..Len(evs) : chain'[i].object = 1 /\ chain'[i].event = evs[k]
      <4> TAKE i \in DOMAIN chain'
      <4>1. CASE i \in 1..Len(chain)
        BY <3>2, <4>1
      <4>2. ASSUME NEW k \in 1..Len(jobs), i = Len(chain) + k
            PROVE  /\ k \in 1..Len(evs)
                   /\ chain'[i].object = 1 /\ chain'[i].event = evs[k]
        <5>1. chain'[i] = jobs[k] /\ k \in 1..Len(evs)
          BY <3>1, <3>2, <4>2
        <5> QED
          BY <3>1, <5>1
      <4> QED
        BY <3>2, <4>1, <4>2
    <3> QED
      BY <1>2, <2>1, <3>3
  <2> QED
    BY <2>1, <2>2
<1>7. /\ EndsAlike(row) /\ \A q \in Requests : EndsAlike(request[q].row)
  BY DEF EndsOK
<1>8. OwnEnd'
  BY <1>2 DEF OwnEnd
<1> QED
  BY <1>3, <1>6, <1>7, <1>8 DEF EndsOK, EndsAlike, ClosedAlike

LEMMA PipelineEnds ==
  ASSUME IInv, EndsOK, Pipeline
  PROVE  EndsOK'
<1>1. TypeOK /\ PointersOK
  BY DEF IInv
<1>2. /\ pipe \in {"text", "render"} /\ heap # <<>> /\ heap \in Seq(StoreRecord)
      /\ heap[1] \in StoreRecord
  BY <1>1 DEF Pipeline, OpensSecondStage, Completes, Fails, Stops, PointersOK, TypeOK
<1>3. UNCHANGED <<row, request, restarts>>
  BY DEF Pipeline, OpensSecondStage, Completes, Fails, Stops
<1>4. CASE OpensSecondStage
  <2> DEFINE evs == <<"stage_started", "stage_progress">>
             new == opened(heap[1])
  <2>1. ~heap[1].terminal /\ Emits(new, evs)
    BY <1>4 DEF OpensSecondStage, isRunCancelled
  <2>2. new \in StoreRecord /\ new.status = "running" /\ new.terminal = FALSE
    BY <1>2, <2>1, Opened
  <2>3. evs \in Seq(StoreEvents) /\ \A i \in 1..Len(evs) : ~isTerminalRunEvent(evs[i])
    BY EventNames
  <2> HIDE DEF evs, new
  <2>4. ClosedAlike(new)
    BY <2>2 DEF ClosedAlike, TerminalEvents
  <2> QED
    BY <1>2, <1>3, <2>1, <2>2, <2>3, <2>4, BurstEnds DEF Emits
<1>5. CASE Completes
  <2> DEFINE evs == <<"artifact_ready", "completed">>
             new == completeRun(emitEvent(heap[1], "artifact_ready"))
  <2>1. ~heap[1].terminal /\ Emits(new, evs) /\ pipe' = "completed"
    BY <1>5 DEF Completes, isRunCancelled
  <2>2. new \in StoreRecord /\ new.status = "completed" /\ new.terminal = TRUE
    BY <1>2, <2>1, Completed
  <2>3. evs \in Seq(StoreEvents)
    BY EventNames
  <2> HIDE DEF evs, new
  <2>4. ClosedAlike(new)
    BY <2>2 DEF ClosedAlike, TerminalEvents
  <2> QED
    BY <1>2, <1>3, <2>1, <2>2, <2>3, <2>4, BurstEnds DEF Emits
<1>6. CASE Fails
  <2> DEFINE evs == <<"failed">>
             new == failRun(heap[1], "RUN_ERROR")
  <2>1. ~heap[1].terminal /\ Emits(new, evs) /\ pipe' = "failed"
    BY <1>6 DEF Fails, isRunCancelled
  <2>2. new \in StoreRecord /\ new.status = "failed" /\ new.terminal = TRUE
    BY <1>2, <2>1, Failed
  <2>3. evs \in Seq(StoreEvents)
    BY EventNames
  <2> HIDE DEF evs, new
  <2>4. ClosedAlike(new)
    BY <2>2 DEF ClosedAlike, TerminalEvents
  <2> QED
    BY <1>2, <1>3, <2>1, <2>2, <2>3, <2>4, BurstEnds DEF Emits
<1>7. CASE Stops
  <2>1. UNCHANGED <<heap, chain, row, request, restarts>> /\ pipe' = "stopped"
        /\ isRunCancelled(heap[1])
    BY <1>7 DEF Stops
  <2>2. ~OneWriter
    <3> SUFFICES ASSUME OneWriter PROVE FALSE
      OBVIOUS
    <3>1. ~heap[1].terminal /\ RecordAgrees(heap[1])
      BY <1>2 DEF IInv, Single
    <3> QED
      BY <2>1, <3>1 DEF isRunCancelled, RecordAgrees, isActiveStatus
  <2>3. ~OneWriter'
    BY <2>1, <2>2 DEF OneWriter, CancelDone
  <2>4. OwnEnd'
    BY <2>3 DEF OwnEnd
  <2> QED
    BY <2>1, <2>4 DEF EndsOK, EndsAlike, ClosedAlike
<1> QED
  BY <1>4, <1>5, <1>6, <1>7 DEF Pipeline

LEMMA StartRunEnds ==
  ASSUME IInv, EndsOK, StartRun
  PROVE  EndsOK'
<1> DEFINE new == opened(emitEvent(EmptyRecord, "queued"))
           evs == <<"queued", "stage_started", "stage_progress">>
           first == <<Job(1, "none")>>
           jobs == SaveOf(1, evs)
<1>1. /\ heap' = <<new>> /\ chain' = first \o jobs
      /\ UNCHANGED <<row, request, restarts>>
  BY DEF StartRun
<1>2. new.status = "running" /\ new.terminal = FALSE
  BY FirstRecord
<1> HIDE DEF new
<1>3. DOMAIN heap' = {1} /\ heap'[1] = new
  BY <1>1
<1>4. /\ first \in Seq(SaveJob) /\ Len(first) = 1 /\ first[1].event = "none"
  BY DEF Job, SaveJob
<1>5. /\ evs \in Seq(StoreEvents)
      /\ \A i \in 1..Len(evs) : ~isTerminalRunEvent(evs[i])
  BY EventNames
<1> HIDE DEF evs
<1>6. /\ jobs \in Seq(SaveJob) /\ Len(jobs) = Len(evs)
      /\ \A i \in 1..Len(evs) : jobs[i].event = evs[i]
  BY <1>5, BurstJobs
<1> HIDE DEF first, jobs
<1>7. \A i \in DOMAIN chain' : ~isTerminalRunEvent(chain'[i].event)
  <2>1. /\ chain' \in Seq(SaveJob) /\ Len(chain') = 1 + Len(jobs)
        /\ \A i \in 1..Len(chain') :
             chain'[i] = IF i <= 1 THEN first[i] ELSE jobs[i - 1]
    <3>1. /\ first \o jobs \in Seq(SaveJob)
          /\ Len(first \o jobs) = Len(first) + Len(jobs)
          /\ \A i \in 1..Len(first) + Len(jobs) :
               (first \o jobs)[i] = IF i <= Len(first) THEN first[i]
                                    ELSE jobs[i - Len(first)]
      <4>1. first \in Seq(SaveJob) /\ jobs \in Seq(SaveJob)
        BY <1>4, <1>6
      <4> QED
        BY <4>1, ConcatProperties
    <3>2. chain' = first \o jobs /\ Len(first) = 1
      BY <1>1, <1>4
    <3> QED
      BY <3>1, <3>2
  <2>2. ~isTerminalRunEvent("none")
    BY DEF isTerminalRunEvent, TerminalEvents
  <2> TAKE i \in DOMAIN chain'
  <2>3. CASE i = 1
    BY <1>4, <2>1, <2>2, <2>3
  <2>4. CASE i # 1
    <3>1. i - 1 \in 1..Len(jobs) /\ chain'[i] = jobs[i - 1]
      BY <1>6, <2>1, <2>4
    <3> QED
      BY <1>5, <1>6, <3>1
  <2> QED
    BY <2>3, <2>4
<1>8. \A o \in DOMAIN heap' : ClosedAlike(heap'[o])
  BY <1>2, <1>3 DEF ClosedAlike, TerminalEvents
<1>9. OwnEnd'
  BY <1>2, <1>3 DEF OwnEnd
<1> QED
  BY <1>1, <1>7, <1>8, <1>9 DEF EndsOK, EndsAlike, ClosedAlike

\* The requests.
LEMMA ReadsRowEnds ==
  ASSUME IInv, EndsOK, NEW q \in Requests, ReadsRow(q)
  PROVE  EndsOK'
<1>1. /\ UNCHANGED <<heap, pipe, chain, row, restarts>>
      /\ request' = [request EXCEPT ![q].step = "row_read", ![q].row = row]
      /\ request \in [Requests -> RequestState] /\ request[q].step = "new"
  BY DEF ReadsRow, IInv, TypeOK
<1>2. /\ \A p \in Requests : request'[p].row \in {row, request[p].row}
      /\ \A p \in Requests :
           request'[p].step = "cancelled" <=> request[p].step = "cancelled"
  BY <1>1 DEF RequestState
<1>3. OneWriter' = OneWriter
  BY <1>2 DEF OneWriter, CancelDone
<1>4. OwnEnd'
  BY <1>1, <1>3 DEF EndsOK, OwnEnd
<1>5. \A p \in Requests : EndsAlike(request'[p].row)
  BY <1>2 DEF EndsOK
<1> QED
  BY <1>1, <1>4, <1>5 DEF EndsOK, EndsAlike, ClosedAlike

LEMMA ReadsEventsEnds ==
  ASSUME IInv, EndsOK, NEW q \in Requests, ReadsEvents(q)
  PROVE  EndsOK'
<1>1. /\ TypeOK /\ PointersOK
      /\ heap \in Seq(StoreRecord) /\ chain \in Seq(SaveJob)
      /\ request \in [Requests -> RequestState] /\ entry \in Nat
      /\ UNCHANGED <<pipe, row, rows, restarts, failures>>
      /\ request[q].step = "row_read"
  BY DEF IInv, TypeOK, ReadsEvents
<1>2. \E o \in Nat, saves \in Seq(SaveJob) :
        /\ RefreshQueues(o, saves)
        /\ Continues(q, o, heap', saves)
        /\ \/ heap' = heap
           \/ /\ request[q].row # NoRow
              /\ heap' = Append(heap, applyLoadedRows(request[q].row, rows, FALSE))
  <2>1. CASE request[q].row = NoRow
    <3>1. RefreshQueues(entry, <<>>) /\ <<>> \in Seq(SaveJob)
      BY DEF RefreshQueues
    <3> QED
      BY <1>1, <2>1, <3>1 DEF ReadsEvents
  <2>2. CASE request[q].row # NoRow
    <3> DEFINE o == Len(heap) + 1
               saves == IF restoredInterruptedRun(request[q].row, FALSE)
                        THEN <<Job(o, "none")>> ELSE <<>>
    <3>1. /\ heap' = Append(heap, applyLoadedRows(request[q].row, rows, FALSE))
          /\ Continues(q, o, heap', saves)
      BY <2>2 DEF ReadsEvents
    <3>2. o \in Nat /\ o # 0 /\ Job(o, "none") \in SaveJob
      BY <1>1 DEF Job, SaveJob
    <3>3. RefreshQueues(o, saves)
      BY <3>2 DEF RefreshQueues
    <3>4. saves \in Seq(SaveJob)
      <4> DEFINE job == Job(o, "none")
      <4> HIDE DEF saves, o, job
      <4>1. <<>> \in Seq(SaveJob) /\ (job \in SaveJob => <<job>> \in Seq(SaveJob))
        OBVIOUS
      <4> QED
        BY <3>2, <3>3, <4>1, Zenon DEF job, RefreshQueues
    <3> HIDE DEF o, saves
    <3> QED
      BY <2>2, <3>1, <3>2, <3>3, <3>4
  <2> QED
    BY <2>1, <2>2
<1>3. PICK o \in Nat, saves \in Seq(SaveJob) :
        /\ RefreshQueues(o, saves)
        /\ Continues(q, o, heap', saves)
        /\ \/ heap' = heap
           \/ /\ request[q].row # NoRow
              /\ heap' = Append(heap, applyLoadedRows(request[q].row, rows, FALSE))
  BY <1>2
<1>4. Moves(q, o, heap', saves)
  BY <1>1, <1>3, RouteMoves
<1>5. /\ \A p \in Requests : request'[p].row = request[p].row
      /\ \A p \in Requests :
           request'[p].step = "cancelled" <=> request[p].step = "cancelled"
  BY <1>1, <1>4 DEF Moves
<1>6. \E jobs \in Seq(SaveJob) :
        /\ chain' = chain \o jobs
        /\ \A k \in 1..Len(jobs) : ~isTerminalRunEvent(jobs[k].event)
  <2>1. \E jobs : RouteQueues(o, saves, jobs) /\ chain' = chain \o jobs
    BY <1>4 DEF Moves, RouteQueues
  <2>2. PICK jobs : RouteQueues(o, saves, jobs) /\ chain' = chain \o jobs
    BY <2>1
  <2>3. /\ jobs \in Seq(SaveJob)
        /\ \A k \in 1..Len(jobs) : jobs[k].event \in {"none", "delete"}
    BY <1>3, <2>2, RouteJobs
  <2> QED
    BY <2>2, <2>3 DEF isTerminalRunEvent, TerminalEvents
<1>7. PICK jobs \in Seq(SaveJob) :
        /\ chain' = chain \o jobs
        /\ \A k \in 1..Len(jobs) : ~isTerminalRunEvent(jobs[k].event)
  BY <1>6
<1>8. \A i \in DOMAIN chain' :
        isTerminalRunEvent(chain'[i].event) =>
          i \in DOMAIN chain /\ chain'[i] = chain[i]
  <2>1. /\ DOMAIN chain = 1..Len(chain) /\ DOMAIN chain' = 1..Len(chain')
        /\ \A i \in 1..Len(chain) : chain'[i] = chain[i]
        /\ \A k \in 1..Len(jobs) : chain'[Len(chain) + k] = jobs[k]
        /\ \A i \in 1..Len(chain') :
             i \in 1..Len(chain) \/ \E k \in 1..Len(jobs) : i = Len(chain) + k
    BY <1>1, <1>7, ChainGrows
  <2> SUFFICES ASSUME NEW i \in 1..Len(chain'), isTerminalRunEvent(chain'[i].event)
               PROVE  i \in 1..Len(chain) /\ chain'[i] = chain[i]
    BY <2>1, Zenon
  <2>2. ~\E k \in 1..Len(jobs) : i = Len(chain) + k
    BY <1>7, <2>1, Zenon
  <2> QED
    BY <2>1, <2>2, Zenon
<1>9. /\ \A k \in DOMAIN heap : k \in DOMAIN heap' /\ heap'[k] = heap[k]
      /\ \A k \in DOMAIN heap' : ClosedAlike(heap'[k])
      /\ heap = <<>> => request[q].step # "row_read"
  <2>1. CASE heap' = heap
    BY <2>1 DEF EndsOK, IInv, NothingYet
  <2>2. CASE /\ request[q].row # NoRow
             /\ heap' = Append(heap, applyLoadedRows(request[q].row, rows, FALSE))
    <3> DEFINE new == applyLoadedRows(request[q].row, rows, FALSE)
    <3>1. request[q].row \in SavedRow /\ EndsAlike(request[q].row)
      BY <1>1, <2>2 DEF RequestState, EndsOK
    <3>2. ClosedAlike(new)
      BY <3>1, LoadedAlike
    <3> HIDE DEF new
    <3>3. heap' = Append(heap, new)
      BY <2>2 DEF new
    <3>4. \A k \in DOMAIN heap' :
            (k \in DOMAIN heap /\ heap'[k] = heap[k]) \/ heap'[k] = new
      BY <1>1, <3>3
    <3>5. \A k \in DOMAIN heap : k \in DOMAIN heap' /\ heap'[k] = heap[k]
      BY <1>1, <3>3
    <3> QED
      BY <3>2, <3>4, <3>5 DEF EndsOK, IInv, NothingYet
  <2> QED
    BY <1>3, <2>1, <2>2
<1>10. \A i \in DOMAIN chain : chain[i].object \in DOMAIN heap
  <2>1. \A i \in DOMAIN chain : chain[i] \in SaveJob /\ chain[i].object <= Len(heap)
    BY <1>1 DEF PointersOK
  <2> QED
    BY <1>1, <2>1 DEF SaveJob
<1>11. \A i \in DOMAIN chain' :
         isTerminalRunEvent(chain'[i].event) => heap'[chain'[i].object].terminal
  BY <1>8, <1>9, <1>10 DEF EndsOK
<1>12. OwnEnd'
  <2>1. heap # <<>> /\ 1 \in DOMAIN heap /\ heap'[1] = heap[1]
    BY <1>1, <1>9
  <2>2. OneWriter' = OneWriter
    BY <1>5 DEF OneWriter, CancelDone
  <2> QED
    BY <1>1, <2>1, <2>2 DEF EndsOK, OwnEnd
<1> QED
  BY <1>1, <1>5, <1>9, <1>11, <1>12 DEF EndsOK, EndsAlike, ClosedAlike

\* A cancelled record is closed, whatever it was before.
LEMMA CancelledAlike ==
  ASSUME NEW rec \in StoreRecord, ClosedAlike(rec)
  PROVE  /\ cancelRunRecord(rec).terminal /\ ClosedAlike(cancelRunRecord(rec))
<1> DEFINE mid == [rec EXCEPT !.status = "cancelled", !.error = "RUN_CANCELLED"]
           new == cancelRunRecord(rec)
<1>1. /\ mid \in StoreRecord /\ mid.status = "cancelled"
      /\ mid.terminal = rec.terminal /\ mid.events = rec.events
  BY StatusNames DEF StoreRecord
<1>2. new = emitEvent(mid, "cancelled")
  BY DEF cancelRunRecord
<1>3. "cancelled" \in StoreEvents /\ isTerminalRunEvent("cancelled")
      /\ "cancelled" \in TerminalEvents /\ "cancelled" # "run_action"
  BY EventNames
<1> HIDE DEF mid
<1>4. CASE ~rec.terminal
  <2>1. new.status = "cancelled" /\ new.terminal
    BY <1>1, <1>2, <1>3, <1>4, EmittedOpen
  <2> HIDE DEF new
  <2> QED
    BY <1>3, <2>1 DEF ClosedAlike, new
<1>5. CASE rec.terminal
  <2>1. new = restoreRecordedTerminalStatus(mid)
    BY <1>1, <1>2, <1>3, <1>5 DEF emitEvent
  <2>2. CASE ~HasTerminalEvent(rec.events)
    <3>1. new = mid
      BY <1>1, <2>1, <2>2 DEF restoreRecordedTerminalStatus
    <3> QED
      BY <1>1, <1>3, <1>5, <3>1 DEF ClosedAlike
  <2>3. CASE HasTerminalEvent(rec.events)
    <3> DEFINE ends == {i \in DOMAIN rec.events : isTerminalRunEvent(rec.events[i])}
               first == FirstTerminal(rec.events)
    <3>1. rec.events \in Seq(StoreEvents) /\ DOMAIN rec.events = 1..Len(rec.events)
      BY DEF StoreRecord
    <3>2. ends # {} /\ ends \in SUBSET Nat
      BY <2>3, <3>1 DEF HasTerminalEvent
    <3>3. PICK x \in ends : \A y \in ends : x <= y
      <4> HIDE DEF ends
      <4> QED
        BY <3>2, LeastExists
    <3>4. /\ x \in DOMAIN rec.events /\ isTerminalRunEvent(rec.events[x])
          /\ \A j \in DOMAIN rec.events : j < x => ~isTerminalRunEvent(rec.events[j])
      BY <3>1, <3>3
    <3>5. isTerminalRunEvent(rec.events[first])
      BY <3>4 DEF FirstTerminal
    <3> HIDE DEF first
    <3>6. new = [mid EXCEPT !.status = rec.events[first]]
      BY <1>1, <2>1, <2>3 DEF restoreRecordedTerminalStatus, first
    <3>7. new.status \in TerminalEvents /\ new.terminal
      BY <1>1, <1>5, <3>5, <3>6 DEF StoreRecord, isTerminalRunEvent
    <3> HIDE DEF new
    <3> QED
      BY <3>7 DEF ClosedAlike, new
  <2> QED
    BY <2>2, <2>3
<1> QED
  BY <1>4, <1>5

LEMMA CancelFinishesEnds ==
  ASSUME IInv, EndsOK, NEW q \in Requests, CancelFinishes(q)
  PROVE  EndsOK' /\ CancelDone'
<1> DEFINE o == request[q].object
           new == cancelRunRecord(heap[o])
<1>1. /\ TypeOK /\ PointersOK
      /\ Kind[q] = "cancel" /\ o \in 1..Len(heap) /\ heap \in Seq(StoreRecord)
      /\ chain \in Seq(SaveJob) /\ request \in [Requests -> RequestState]
      /\ heap' = [heap EXCEPT ![o] = new]
      /\ chain' = chain \/ chain' = Append(chain, Job(o, "cancelled"))
      /\ request' = [request EXCEPT ![q].step = "cancelled"]
      /\ UNCHANGED <<pipe, row, restarts>>
  BY DEF IInv, TypeOK, PointersOK, CancelFinishes
<1>2. o \in DOMAIN heap /\ heap[o] \in StoreRecord /\ ClosedAlike(heap[o])
  BY <1>1 DEF EndsOK
<1>3. new.terminal /\ ClosedAlike(new)
  BY <1>2, CancelledAlike
<1>4. /\ request'[q].step = "cancelled"
      /\ \A p \in Requests : request'[p].row = request[p].row
  BY <1>1 DEF RequestState
<1>5. CancelDone' /\ ~OneWriter'
  BY <1>1, <1>4 DEF CancelDone, OneWriter
<1> HIDE DEF new, o
<1>6. /\ DOMAIN heap' = DOMAIN heap /\ heap'[o] = new
      /\ \A k \in DOMAIN heap : k # o => heap'[k] = heap[k]
  BY <1>1, <1>2
<1> DEFINE job == Job(o, "cancelled")
<1>7. job.object = o /\ job \in SaveJob
  BY <1>1, <1>2, EventNames DEF Job, SaveJob
<1>8. chain' = chain \/ chain' = Append(chain, job)
  BY <1>1
<1> HIDE DEF job
<1>9. \A i \in DOMAIN chain' :
        (i \in DOMAIN chain /\ chain'[i] = chain[i]) \/ chain'[i] = job
  <2>1. chain \in Seq(SaveJob)
    BY <1>1
  <2>2. \A i \in DOMAIN Append(chain, job) :
          \/ i \in DOMAIN chain /\ Append(chain, job)[i] = chain[i]
          \/ Append(chain, job)[i] = job
    BY <1>7, <2>1
  <2> QED
    BY <1>8, <2>2
<1>10. \A i \in DOMAIN chain : chain[i].object \in DOMAIN heap
  <2>1. \A i \in DOMAIN chain : chain[i] \in SaveJob /\ chain[i].object <= Len(heap)
    BY <1>1 DEF PointersOK
  <2> QED
    BY <1>1, <2>1 DEF SaveJob
<1>11. \A i \in DOMAIN chain' :
         isTerminalRunEvent(chain'[i].event) => heap'[chain'[i].object].terminal
  BY <1>3, <1>6, <1>7, <1>9, <1>10 DEF EndsOK
<1>12. \A k \in DOMAIN heap' : ClosedAlike(heap'[k])
  BY <1>3, <1>6 DEF EndsOK
<1>13. OwnEnd'
  BY <1>5 DEF OwnEnd
<1> QED
  BY <1>1, <1>4, <1>5, <1>11, <1>12, <1>13 DEF EndsOK, EndsAlike, ClosedAlike

LEMMA RestartEnds ==
  ASSUME IInv, EndsOK, Restart
  PROVE  EndsOK'
<1>1. /\ TypeOK /\ restarts' = restarts + 1 /\ restarts \in Nat /\ row' = row
      /\ heap' = IF row = NoRow THEN <<>> ELSE <<applyLoadedRows(row, rows, TRUE)>>
      /\ chain' = IF row # NoRow /\ restoredInterruptedRun(row, TRUE)
                  THEN <<Job(1, "none")>> ELSE <<>>
      /\ request \in [Requests -> RequestState]
  BY DEF IInv, TypeOK, Restart
<1>2. \A q \in Requests : request'[q].row = request[q].row
  BY <1>1 DEF Restart, RequestState
<1>3. \A o \in DOMAIN heap' : ClosedAlike(heap'[o])
  <2>1. CASE row = NoRow
    BY <1>1, <2>1
  <2>2. CASE row # NoRow
    <3> DEFINE new == applyLoadedRows(row, rows, TRUE)
    <3>1. ClosedAlike(new)
      BY <1>1, <2>2, LoadedAlike DEF TypeOK, EndsOK
    <3> HIDE DEF new
    <3>2. heap' = <<new>>
      BY <1>1, <2>2 DEF new
    <3> QED
      BY <3>1, <3>2
  <2> QED
    BY <2>1, <2>2
<1>4. \A i \in DOMAIN chain' : ~isTerminalRunEvent(chain'[i].event)
  <2> DEFINE job == Job(1, "none")
  <2>1. ~isTerminalRunEvent(job.event)
    BY DEF Job, isTerminalRunEvent, TerminalEvents
  <2> HIDE DEF job
  <2>2. chain' = <<>> \/ chain' = <<job>>
    BY <1>1 DEF job
  <2> QED
    BY <2>1, <2>2
<1>5. OwnEnd'
  BY <1>1 DEF OwnEnd
<1> QED
  BY <1>1, <1>2, <1>3, <1>4, <1>5 DEF EndsOK, EndsAlike, ClosedAlike

LEMMA StepEnds == IInv /\ EndsOK /\ [Next]_vars => EndsOK'
<1> SUFFICES ASSUME IInv, EndsOK, [Next]_vars PROVE EndsOK'
  OBVIOUS
<1>1. CASE UNCHANGED vars
  BY <1>1 DEF vars, EndsOK, EndsAlike, ClosedAlike, OwnEnd, OneWriter, CancelDone
<1>2. ASSUME NEW q \in Requests, Request(q) PROVE EndsOK'
  BY <1>2, ReadsRowEnds, ReadsEventsEnds, CancelFinishesEnds DEF Request
<1> QED
  BY <1>1, <1>2, SavesEnds, PipelineEnds, StartRunEnds, RestartEnds DEF Next

LEMMA EndsInvariance == Spec => []EndsOK
BY InitEnds, StepEnds, Invariance, PTL DEF Spec

-----------------------------------------------------------------------------
(***************************************************************************)
(* What is left to save when the pipeline is over.                         *)
(***************************************************************************)
\* A row that has ended in every respect.
Over(r) == r.completedAt /\ r.status \in TerminalEvents

\* A save that is waiting for its turn.
Waiting(i) == chain[i].next = "record" /\ chain[i].event # "delete"

RestOK ==
  /\ heap # <<>> /\ pipe \notin {"text", "render"} => heap[1].terminal
  /\ \A i \in DOMAIN chain : chain[i].object # 1 /\ chain[i].event # "delete" =>
       heap[chain[i].object].terminal
  /\ failures = 0 /\ row # NoRow /\ heap[1].terminal /\ ~Over(row) =>
       \E i \in DOMAIN chain : Waiting(i)

LEMMA InitRest == Init => RestOK
<1> SUFFICES ASSUME Init PROVE RestOK
  OBVIOUS
<1>1. heap = <<>> /\ chain = <<>> /\ row = NoRow /\ DOMAIN chain = {}
  BY DEF Init
<1> QED
  BY <1>1 DEF RestOK

\* The pipeline's record is there as soon as there is a row.
LEMMA HeadRecord ==
  ASSUME IInv, row # NoRow \/ heap # <<>>
  PROVE  heap # <<>> /\ 1 \in DOMAIN heap /\ heap[1] \in StoreRecord
<1>1. heap # <<>> /\ heap \in Seq(StoreRecord)
  BY DEF IInv, TypeOK, NothingYet
<1> QED
  BY <1>1

\* When the pipeline's record is closed, the next save ends the row: whatever
\* else is saved is closed too.
LEMMA SavedOver ==
  ASSUME IInv, EndsOK, RestOK, SaveRecord, heap[1].terminal
  PROVE  Over(row')
<1> DEFINE e == chain[1].event
           rec == heap[chain[1].object]
<1>1. TypeOK /\ PointersOK /\ chain # <<>>
  BY DEF IInv, SaveRecord
<1>2. /\ 1 \in DOMAIN chain /\ Head(chain) = chain[1] /\ rec \in StoreRecord
      /\ chain[1].object \in DOMAIN heap
  BY <1>1, HeadJob DEF TypeOK
<1>3. row' = upsertRecord(rec, e) /\ e # "delete"
  BY <1>2 DEF SaveRecord
<1>4. rec.terminal
  <2>1. CASE chain[1].object = 1
    BY <2>1
  <2>2. CASE chain[1].object # 1
    BY <1>2, <1>3, <2>2 DEF RestOK
  <2> QED
    BY <2>1, <2>2
<1>5. rec.status \in TerminalEvents
  BY <1>2, <1>4 DEF EndsOK, ClosedAlike
<1>6. row \in SavedRow \cup {NoRow}
  BY <1>1 DEF TypeOK
<1> HIDE DEF rec, e
<1>7. /\ row'.status = readPersistedStatus(rec, e)
      /\ row'.completedAt = (rec.terminal \/ isTerminalRunEvent(e) \/ Ended(row))
  BY <1>2, <1>3, <1>6, Upserted
<1>8. readPersistedStatus(rec, e) \in TerminalEvents
  BY <1>2, <1>5, Persisted DEF isTerminalRunEvent
<1> QED
  BY <1>4, <1>7, <1>8 DEF Over

LEMMA SavesRest ==
  ASSUME IInv, EndsOK, RestOK, Saves
  PROVE  RestOK'
<1>1. /\ chain # <<>> /\ chain \in Seq(SaveJob) /\ failures \in Nat
      /\ UNCHANGED <<heap, pipe>>
  BY DEF IInv, TypeOK, Saves, SaveRecord, SaveEvent, DeleteRow, SaveFails
<1>2. \A i \in DOMAIN chain : chain[i] \in SaveJob
  BY <1>1
<1>3. ASSUME chain' = Tail(chain)
      PROVE  /\ \A i \in DOMAIN chain' : i + 1 \in DOMAIN chain /\ chain'[i] = chain[i + 1]
             /\ \A j \in DOMAIN chain : j # 1 => \E i \in DOMAIN chain' : chain'[i] = chain[j]
  <2>1. /\ DOMAIN chain = 1..Len(chain) /\ DOMAIN chain' = 1..(Len(chain) - 1)
        /\ \A i \in DOMAIN chain' : i + 1 \in DOMAIN chain /\ chain'[i] = chain[i + 1]
    BY <1>1, <1>3
  <2>2. ASSUME NEW j \in DOMAIN chain, j # 1
        PROVE  \E i \in DOMAIN chain' : chain'[i] = chain[j]
    <3>1. j - 1 \in DOMAIN chain' /\ (j - 1) + 1 = j
      BY <1>1, <2>1, <2>2
    <3> QED
      BY <2>1, <3>1
  <2> QED
    BY <2>1, <2>2
<1>4. ASSUME chain' = [chain EXCEPT ![1].next = "event"]
      PROVE  \A i \in DOMAIN chain' : /\ i \in DOMAIN chain
                                      /\ chain'[i].object = chain[i].object
                                      /\ chain'[i].event = chain[i].event
  BY <1>2, <1>4 DEF SaveJob
<1>5. chain' = Tail(chain) \/ chain' = [chain EXCEPT ![1].next = "event"]
  BY DEF Saves, SaveRecord, SaveEvent, DeleteRow, SaveFails
<1>6. \A i \in DOMAIN chain' : chain'[i].object # 1 /\ chain'[i].event # "delete" =>
        heap'[chain'[i].object].terminal
  BY <1>1, <1>3, <1>4, <1>5 DEF RestOK
<1>7. ASSUME failures' = 0, row' # NoRow, heap'[1].terminal, ~Over(row')
      PROVE  \E i \in DOMAIN chain' : Waiting(i)'
  <2>1. ~SaveRecord
    BY <1>1, <1>7, SavedOver
  <2>2. SaveEvent \/ SaveFails
    BY <1>7, <2>1 DEF Saves, DeleteRow
  <2>3. row' = row /\ chain' = Tail(chain) /\ failures = 0 /\ Head(chain).next = "event"
    BY <1>1, <1>7, <2>2 DEF SaveEvent, SaveFails
  <2>4. PICK j \in DOMAIN chain : Waiting(j)
    BY <1>1, <1>7, <2>3 DEF RestOK
  <2>5. j # 1
    BY <1>1, <2>3, <2>4 DEF Waiting
  <2> QED
    BY <1>3, <2>3, <2>4, <2>5 DEF Waiting
<1> QED
  BY <1>1, <1>6, <1>7 DEF RestOK, Waiting, Over

\* A burst of the pipeline that closes its record leaves the save of its end.
LEMMA BurstRest ==
  ASSUME IInv, RestOK, heap # <<>>, ~heap[1].terminal,
         NEW new \in StoreRecord, NEW evs \in Seq(StoreEvents),
         heap' = [heap EXCEPT ![1] = new], chain' = chain \o SaveOf(1, evs),
         \/ ~new.terminal /\ pipe' \in {"text", "render"}
         \/ new.terminal /\ \E k \in 1..Len(evs) : isTerminalRunEvent(evs[k])
  PROVE  RestOK'
<1> DEFINE jobs == SaveOf(1, evs)
<1>1. heap \in Seq(StoreRecord) /\ chain \in Seq(SaveJob) /\ PointersOK
  BY DEF IInv, TypeOK
<1>2. /\ 1 \in DOMAIN heap /\ DOMAIN heap' = DOMAIN heap /\ heap'[1] = new
      /\ \A k \in DOMAIN heap : k # 1 => heap'[k] = heap[k]
  BY <1>1
<1>3. \A i \in DOMAIN chain : chain[i].object \in DOMAIN heap
  <2>1. \A i \in DOMAIN chain : chain[i] \in SaveJob /\ chain[i].object <= Len(heap)
    BY <1>1 DEF PointersOK
  <2> QED
    BY <1>1, <2>1 DEF SaveJob
<1>4. /\ jobs \in Seq(SaveJob) /\ Len(jobs) = Len(evs)
      /\ \A i \in 1..Len(evs) :
           /\ jobs[i].object = 1 /\ jobs[i].event = evs[i]
           /\ jobs[i].next = IF evs[i] = "stage_progress" THEN "event" ELSE "record"
  BY BurstJobs
<1> HIDE DEF jobs
<1>5. /\ DOMAIN chain = 1..Len(chain) /\ DOMAIN chain' = 1..Len(chain')
      /\ \A i \in 1..Len(chain) : chain'[i] = chain[i]
      /\ \A k \in 1..Len(jobs) :
           Len(chain) + k \in 1..Len(chain') /\ chain'[Len(chain) + k] = jobs[k]
      /\ \A i \in 1..Len(chain') :
           i \in 1..Len(chain) \/ \E k \in 1..Len(jobs) : i = Len(chain) + k
  <2>1. chain' = chain \o jobs
    BY DEF jobs
  <2> QED
    BY <1>1, <1>4, <2>1, ChainGrows
<1>6. \A i \in DOMAIN chain' : chain'[i].object # 1 => i \in DOMAIN chain /\ chain'[i] = chain[i]
  <2> TAKE i \in DOMAIN chain'
  <2>1. ASSUME NEW k \in 1..Len(jobs), i = Len(chain) + k PROVE chain'[i].object = 1
    <3>1. chain'[i] = jobs[k] /\ k \in 1..Len(evs)
      BY <1>4, <1>5, <2>1
    <3> QED
      BY <1>4, <3>1
  <2> QED
    BY <1>5, <2>1
<1>7. \A i \in DOMAIN chain' : chain'[i].object # 1 /\ chain'[i].event # "delete" =>
        heap'[chain'[i].object].terminal
  BY <1>2, <1>3, <1>6 DEF RestOK
<1>8. ASSUME new.terminal PROVE \E i \in DOMAIN chain' : Waiting(i)'
  <2>1. PICK k \in 1..Len(evs) : isTerminalRunEvent(evs[k])
    BY <1>8
  <2>2. evs[k] \notin {"stage_progress", "delete"}
    BY <2>1 DEF isTerminalRunEvent, TerminalEvents
  <2>3. jobs[k].event # "delete" /\ jobs[k].next = "record"
    BY <1>4, <2>2
  <2>4. Len(chain) + k \in DOMAIN chain' /\ chain'[Len(chain) + k] = jobs[k]
    BY <1>4, <1>5
  <2> QED
    BY <2>3, <2>4 DEF Waiting
<1> QED
  BY <1>2, <1>7, <1>8 DEF RestOK, Waiting

LEMMA PipelineRest ==
  ASSUME IInv, EndsOK, RestOK, Pipeline
  PROVE  RestOK'
<1>1. /\ pipe \in {"text", "render"} /\ heap # <<>> /\ UNCHANGED request
      /\ heap[1] \in StoreRecord /\ 1 \in DOMAIN heap
  <2>1. pipe \in {"text", "render"} /\ UNCHANGED request
    BY DEF Pipeline, OpensSecondStage, Completes, Fails, Stops
  <2>2. heap # <<>>
    BY <2>1 DEF IInv, PointersOK
  <2> QED
    BY <2>1, <2>2, HeadRecord
<1>2. ASSUME ~isRunCancelled(heap[1])
      PROVE  /\ heap[1].terminal = FALSE /\ heap[1].events \in Seq(StoreEvents)
             /\ Len(heap[1].events) \in Nat
  BY <1>1, <1>2, BurstStart
<1>3. CASE OpensSecondStage
  <2> DEFINE evs == <<"stage_started", "stage_progress">>
             new == opened(heap[1])
  <2>1. ~isRunCancelled(heap[1]) /\ Emits(new, evs) /\ pipe' = "render"
    BY <1>3 DEF OpensSecondStage
  <2>2. /\ new \in StoreRecord /\ new.terminal = FALSE
        /\ new.events = Append(Append(heap[1].events, "stage_started"), "stage_progress")
    BY <1>1, <1>2, <2>1, Opened
  <2>3. evs \in Seq(StoreEvents)
    BY EventNames
  <2> HIDE DEF evs, new
  <2>4. Len(new.events) # Len(heap[1].events)
    BY <1>2, <2>1, <2>2, TwoAppended, EventNames
  <2> QED
    BY <1>1, <1>2, <2>1, <2>2, <2>3, <2>4, BurstRest DEF Emits
<1>4. CASE Completes
  <2> DEFINE evs == <<"artifact_ready", "completed">>
             new == completeRun(emitEvent(heap[1], "artifact_ready"))
  <2>1. ~isRunCancelled(heap[1]) /\ Emits(new, evs)
    BY <1>4 DEF Completes
  <2>2. /\ new \in StoreRecord /\ new.terminal = TRUE
        /\ new.events = Append(Append(heap[1].events, "artifact_ready"), "completed")
    BY <1>1, <1>2, <2>1, Completed
  <2>3. /\ evs \in Seq(StoreEvents) /\ Len(evs) = 2 /\ isTerminalRunEvent(evs[2])
        /\ 2 \in 1..Len(evs)
    BY EventNames
  <2> HIDE DEF evs, new
  <2>4. Len(new.events) # Len(heap[1].events)
    BY <1>2, <2>1, <2>2, TwoAppended, EventNames
  <2> QED
    BY <1>1, <1>2, <2>1, <2>2, <2>3, <2>4, BurstRest DEF Emits
<1>5. CASE Fails
  <2> DEFINE evs == <<"failed">>
             new == failRun(heap[1], "RUN_ERROR")
  <2>1. ~isRunCancelled(heap[1]) /\ Emits(new, evs)
    BY <1>5 DEF Fails
  <2>2. /\ new \in StoreRecord /\ new.terminal = TRUE
        /\ new.events = Append(heap[1].events, "failed")
    BY <1>1, <1>2, <2>1, Failed
  <2>3. /\ evs \in Seq(StoreEvents) /\ Len(evs) = 1 /\ isTerminalRunEvent(evs[1])
        /\ 1 \in 1..Len(evs)
    BY EventNames
  <2> HIDE DEF evs, new
  <2>4. Len(new.events) # Len(heap[1].events)
    BY <1>2, <2>1, <2>2
  <2> QED
    BY <1>1, <1>2, <2>1, <2>2, <2>3, <2>4, BurstRest DEF Emits
<1>6. CASE Stops
  <2>1. UNCHANGED <<heap, chain, row, failures>> /\ isRunCancelled(heap[1])
    BY <1>6 DEF Stops
  <2>2. heap[1].terminal
    BY <1>1, <2>1 DEF EndsOK, ClosedAlike, isRunCancelled, TerminalEvents
  <2> QED
    BY <2>1, <2>2 DEF RestOK, Waiting, Over
<1> QED
  BY <1>3, <1>4, <1>5, <1>6 DEF Pipeline

LEMMA StartRunRest ==
  ASSUME IInv, StartRun
  PROVE  RestOK'
<1> DEFINE new == opened(emitEvent(EmptyRecord, "queued"))
           evs == <<"queued", "stage_started", "stage_progress">>
           first == <<Job(1, "none")>>
           jobs == SaveOf(1, evs)
<1>1. heap' = <<new>> /\ chain' = first \o jobs /\ pipe' = "text"
  BY DEF StartRun
<1>2. new.terminal = FALSE
  BY FirstRecord
<1> HIDE DEF new
<1>3. heap'[1] = new
  BY <1>1
<1>4. first \in Seq(SaveJob) /\ Len(first) = 1 /\ first[1].object = 1
  BY DEF Job, SaveJob
<1>5. evs \in Seq(StoreEvents)
  BY EventNames
<1> HIDE DEF evs
<1>6. /\ jobs \in Seq(SaveJob)
      /\ \A i \in 1..Len(jobs) : jobs[i].object = 1
  BY <1>5, BurstJobs
<1> HIDE DEF first, jobs
<1>7. /\ Len(chain') = Len(first) + Len(jobs) /\ chain' \in Seq(SaveJob)
      /\ \A i \in 1..Len(first) + Len(jobs) :
           chain'[i] = IF i <= Len(first) THEN first[i] ELSE jobs[i - Len(first)]
  BY <1>1, <1>4, <1>6, ConcatProperties
<1>8. ASSUME NEW i \in DOMAIN chain' PROVE chain'[i].object = 1
  <2>1. i \in 1..(1 + Len(jobs)) /\ Len(jobs) \in Nat
    BY <1>4, <1>6, <1>7
  <2>2. CASE i = 1
    BY <1>4, <1>7, <2>1, <2>2
  <2>3. CASE i # 1
    <3>1. i - 1 \in 1..Len(jobs) /\ chain'[i] = jobs[i - 1]
      BY <1>4, <1>7, <2>1, <2>3
    <3> QED
      BY <1>6, <3>1
  <2> QED
    BY <2>2, <2>3
<1> QED
  BY <1>1, <1>2, <1>3, <1>8 DEF RestOK

LEMMA ReadsEventsRest ==
  ASSUME IInv, RestOK, NEW q \in Requests, ReadsEvents(q)
  PROVE  RestOK'
<1>1. /\ TypeOK /\ PointersOK
      /\ heap \in Seq(StoreRecord) /\ chain \in Seq(SaveJob)
      /\ request \in [Requests -> RequestState] /\ entry \in Nat
      /\ UNCHANGED <<pipe, row, rows, restarts, failures>>
      /\ heap # <<>>
  BY DEF IInv, TypeOK, ReadsEvents, NothingYet
<1>2. \E o \in Nat, saves \in Seq(SaveJob) :
        /\ RefreshQueues(o, saves)
        /\ Continues(q, o, heap', saves)
        /\ \A k \in DOMAIN heap : k \in DOMAIN heap' /\ heap'[k] = heap[k]
        /\ saves # <<>> => heap'[o].terminal
  <2>1. CASE request[q].row = NoRow
    <3>1. RefreshQueues(entry, <<>>) /\ <<>> \in Seq(SaveJob)
      BY DEF RefreshQueues
    <3>2. heap' = heap /\ Continues(q, entry, heap', <<>>)
      BY <2>1 DEF ReadsEvents
    <3> QED
      BY <1>1, <3>1, <3>2
  <2>2. CASE request[q].row # NoRow
    <3> DEFINE o == Len(heap) + 1
               new == applyLoadedRows(request[q].row, rows, FALSE)
               marked == restoredInterruptedRun(request[q].row, FALSE)
               saves == IF marked THEN <<Job(o, "none")>> ELSE <<>>
    <3>1. heap' = Append(heap, new) /\ Continues(q, o, heap', saves)
      BY <2>2 DEF ReadsEvents
    <3>2. o \in Nat /\ o # 0 /\ Job(o, "none") \in SaveJob
      BY <1>1 DEF Job, SaveJob
    <3>3. marked => new.terminal
      BY DEF applyLoadedRows
    <3>4. RefreshQueues(o, saves)
      BY <3>2 DEF RefreshQueues
    <3>5. saves \in Seq(SaveJob) /\ (saves # <<>> => marked)
      <4> DEFINE job == Job(o, "none")
      <4> HIDE DEF o, job, marked
      <4>1. <<>> \in Seq(SaveJob) /\ (job \in SaveJob => <<job>> \in Seq(SaveJob))
        OBVIOUS
      <4> QED
        BY <3>2, <4>1, Zenon DEF job
    <3> HIDE DEF new, saves, marked
    <3>6. /\ heap'[o] = new
          /\ \A k \in DOMAIN heap : k \in DOMAIN heap' /\ heap'[k] = heap[k]
      BY <1>1, <3>1
    <3> HIDE DEF o
    <3> QED
      BY <3>1, <3>2, <3>3, <3>4, <3>5, <3>6
  <2> QED
    BY <2>1, <2>2
<1>3. PICK o \in Nat, saves \in Seq(SaveJob) :
        /\ RefreshQueues(o, saves)
        /\ Continues(q, o, heap', saves)
        /\ \A k \in DOMAIN heap : k \in DOMAIN heap' /\ heap'[k] = heap[k]
        /\ saves # <<>> => heap'[o].terminal
  BY <1>2
<1>4. Moves(q, o, heap', saves)
  BY <1>1, <1>3, RouteMoves
<1>5. \E jobs : RouteQueues(o, saves, jobs) /\ chain' = chain \o jobs
  BY <1>4 DEF Moves, RouteQueues
<1>6. PICK jobs : RouteQueues(o, saves, jobs) /\ chain' = chain \o jobs
  BY <1>5
<1>7. /\ jobs \in Seq(SaveJob)
      /\ \A k \in 1..Len(jobs) :
           jobs[k].object = o /\ (saves = <<>> => jobs[k].event = "delete")
  BY <1>3, <1>6, RouteJobs
<1>8. /\ DOMAIN chain = 1..Len(chain) /\ DOMAIN chain' = 1..Len(chain')
      /\ \A i \in 1..Len(chain) : i \in 1..Len(chain') /\ chain'[i] = chain[i]
      /\ \A i \in 1..Len(jobs) : chain'[Len(chain) + i] = jobs[i]
      /\ \A i \in 1..Len(chain') :
           i \in 1..Len(chain) \/ \E k \in 1..Len(jobs) : i = Len(chain) + k
  BY <1>1, <1>6, <1>7, ChainGrows
<1>9. \A i \in DOMAIN chain : chain[i].object \in DOMAIN heap
  <2>1. \A i \in DOMAIN chain : chain[i] \in SaveJob /\ chain[i].object <= Len(heap)
    BY <1>1 DEF PointersOK
  <2> QED
    BY <1>1, <2>1 DEF SaveJob
<1>10. ASSUME NEW i \in DOMAIN chain', chain'[i].object # 1, chain'[i].event # "delete"
       PROVE  heap'[chain'[i].object].terminal
  <2>1. CASE i \in 1..Len(chain)
    BY <1>3, <1>8, <1>9, <1>10, <2>1 DEF RestOK
  <2>2. ASSUME NEW k \in 1..Len(jobs), i = Len(chain) + k
        PROVE  heap'[chain'[i].object].terminal
    <3>1. chain'[i] = jobs[k]
      BY <1>8, <2>2
    <3> QED
      BY <1>3, <1>7, <1>10, <3>1
  <2> QED
    BY <1>8, <2>1, <2>2
<1>11. heap'[1] = heap[1] /\ \A i \in DOMAIN chain : i \in DOMAIN chain' /\ chain'[i] = chain[i]
  BY <1>1, <1>3, <1>8
<1>12. ASSUME NEW i \in DOMAIN chain, Waiting(i)
       PROVE  i \in DOMAIN chain' /\ Waiting(i)'
  BY <1>11, <1>12 DEF Waiting
<1> QED
  BY <1>1, <1>10, <1>11, <1>12 DEF RestOK, Over

LEMMA CancelFinishesRest ==
  ASSUME IInv, EndsOK, RestOK, NEW q \in Requests, CancelFinishes(q)
  PROVE  RestOK'
<1> DEFINE o == request[q].object
           new == cancelRunRecord(heap[o])
           job == Job(o, "cancelled")
<1>1. /\ PointersOK /\ o \in 1..Len(heap) /\ heap \in Seq(StoreRecord)
      /\ chain \in Seq(SaveJob) /\ heap' = [heap EXCEPT ![o] = new]
      /\ chain' = IF Len(new.events) = Len(heap[o].events) THEN chain
                  ELSE Append(chain, job)
      /\ UNCHANGED <<pipe, row, failures>>
  BY DEF IInv, TypeOK, PointersOK, CancelFinishes
<1>2. o \in DOMAIN heap /\ heap[o] \in StoreRecord /\ ClosedAlike(heap[o])
  BY <1>1 DEF EndsOK
<1>3. new.terminal
  BY <1>2, CancelledAlike
<1>4. ASSUME ~heap[o].terminal PROVE Len(new.events) # Len(heap[o].events)
  <2> DEFINE mid == [heap[o] EXCEPT !.status = "cancelled", !.error = "RUN_CANCELLED"]
  <2>1. /\ mid \in StoreRecord /\ ~mid.terminal /\ mid.events = heap[o].events
        /\ mid.events \in Seq(StoreEvents)
    BY <1>2, <1>4, StatusNames DEF StoreRecord
  <2>2. new = emitEvent(mid, "cancelled")
    BY DEF cancelRunRecord
  <2> HIDE DEF mid, new
  <2>3. new.events = Append(mid.events, "cancelled")
    BY <2>1, <2>2, EventNames, EmittedOpen
  <2>4. Len(Append(mid.events, "cancelled")) = Len(mid.events) + 1
        /\ Len(mid.events) \in Nat
    BY <2>1
  <2>5. Len(new.events) = Len(heap[o].events) + 1 /\ Len(heap[o].events) \in Nat
    BY <2>1, <2>3, <2>4
  <2>6. \A n \in Nat : n + 1 # n
    OBVIOUS
  <2> QED
    BY <2>5, <2>6, Zenon
<1>5. job.object = o /\ job.event # "delete" /\ job.next = "record"
  BY DEF Job
<1> HIDE DEF new, job, o
<1>6. /\ DOMAIN heap' = DOMAIN heap /\ heap'[o] = new
      /\ \A k \in DOMAIN heap : k # o => heap'[k] = heap[k]
  BY <1>1, <1>2
<1>7. \A k \in DOMAIN heap : heap[k].terminal => heap'[k].terminal
  BY <1>3, <1>6
<1>8. /\ \A i \in DOMAIN chain : i \in DOMAIN chain' /\ chain'[i] = chain[i]
      /\ \A i \in DOMAIN chain' :
           (i \in DOMAIN chain /\ chain'[i] = chain[i]) \/ chain'[i] = job
      /\ ~heap[o].terminal => \E i \in DOMAIN chain' : chain'[i] = job
  <2>1. CASE chain' = chain
    BY <1>1, <1>4, <2>1
  <2>2. CASE chain' = Append(chain, job)
    <3>1. /\ DOMAIN chain = 1..Len(chain) /\ DOMAIN chain' = 1..(Len(chain) + 1)
          /\ \A i \in 1..Len(chain) : chain'[i] = chain[i]
          /\ chain'[Len(chain) + 1] = job /\ Len(chain) \in Nat
      BY <1>1, <2>2
    <3> QED
      BY <3>1
  <2> QED
    BY <1>1, <2>1, <2>2
<1>9. \A i \in DOMAIN chain : chain[i].object \in DOMAIN heap
  <2>1. \A i \in DOMAIN chain : chain[i] \in SaveJob /\ chain[i].object <= Len(heap)
    BY <1>1 DEF PointersOK
  <2> QED
    BY <1>1, <2>1 DEF SaveJob
<1>10. \A i \in DOMAIN chain' : chain'[i].object # 1 /\ chain'[i].event # "delete" =>
         heap'[chain'[i].object].terminal
  BY <1>3, <1>5, <1>6, <1>7, <1>8, <1>9 DEF RestOK
<1>11. heap # <<>> /\ 1 \in DOMAIN heap
  BY <1>1
<1>12. ASSUME failures' = 0, row' # NoRow, heap'[1].terminal, ~Over(row')
       PROVE  \E i \in DOMAIN chain' : Waiting(i)'
  <2>1. CASE heap[1].terminal
    <3>1. PICK i \in DOMAIN chain : Waiting(i)
      BY <1>1, <1>12, <2>1 DEF RestOK
    <3> QED
      BY <1>8, <3>1 DEF Waiting
  <2>2. CASE ~heap[1].terminal
    <3>1. o = 1
      BY <1>6, <1>11, <1>12, <2>2
    <3> QED
      BY <1>5, <1>8, <2>2, <3>1 DEF Waiting
  <2> QED
    BY <2>1, <2>2
<1> QED
  BY <1>1, <1>7, <1>10, <1>11, <1>12 DEF RestOK, Waiting, Over

\* After a crash the row has ended, or its end is the first thing to be saved.
LEMMA RestartRest ==
  ASSUME IInv, EndsOK, Restart
  PROVE  RestOK'
<1> DEFINE job == Job(1, "none")
           new == applyLoadedRows(row, rows, TRUE)
           marked == restoredInterruptedRun(row, TRUE)
<1>1. /\ row \in SavedRow \cup {NoRow} /\ row' = row
      /\ heap' = IF row = NoRow THEN <<>> ELSE <<new>>
      /\ chain' = IF row # NoRow /\ marked THEN <<job>> ELSE <<>>
  BY DEF IInv, TypeOK, Restart
<1>2. job.object = 1 /\ job.event # "delete" /\ job.next = "record"
  BY DEF Job
<1>3. ASSUME row # NoRow
      PROVE  new.terminal /\ (~marked => Over(row))
  <2>1. row \in SavedRow /\ EndsAlike(row) /\ row.status \in Statuses
    BY <1>1, <1>3 DEF EndsOK, SavedRow
  <2>2. marked => new.terminal
    BY DEF applyLoadedRows
  <2>3. ASSUME ~marked PROVE new.terminal /\ Over(row)
    <3>1. row.status \in TerminalEvents
      BY <2>1, <2>3 DEF restoredInterruptedRun, isActiveStatus, Statuses
    <3>2. Over(row)
      BY <1>3, <2>1, <3>1 DEF EndsAlike, Over
    <3> QED
      BY <2>3, <3>1, <3>2 DEF applyLoadedRows
  <2> QED
    BY <2>2, <2>3
<1> HIDE DEF job, new, marked
<1>4. CASE row = NoRow
  BY <1>1, <1>4 DEF RestOK
<1>5. CASE row # NoRow
  <2>1. heap' = <<new>> /\ heap'[1] = new
    BY <1>1, <1>5
  <2>2. CASE marked
    <3>1. chain' = <<job>> /\ DOMAIN chain' = {1} /\ chain'[1] = job
      BY <1>1, <1>5, <2>2
    <3> QED
      BY <1>2, <1>3, <1>5, <2>1, <3>1 DEF RestOK, Waiting
  <2>3. CASE ~marked
    <3>1. chain' = <<>> /\ DOMAIN chain' = {}
      BY <1>1, <2>3
    <3> QED
      BY <1>1, <1>3, <1>5, <2>1, <2>3, <3>1 DEF RestOK, Over
  <2> QED
    BY <2>2, <2>3
<1> QED
  BY <1>4, <1>5

LEMMA StepRest == IInv /\ EndsOK /\ RestOK /\ [Next]_vars => RestOK'
<1> SUFFICES ASSUME IInv, EndsOK, RestOK, [Next]_vars PROVE RestOK'
  OBVIOUS
<1>1. CASE UNCHANGED vars
  BY <1>1 DEF vars, RestOK, Waiting, Over
<1>2. ASSUME NEW q \in Requests, Request(q) PROVE RestOK'
  <2>1. CASE ReadsRow(q)
    BY <2>1 DEF ReadsRow, RestOK, Waiting, Over
  <2> QED
    BY <1>2, <2>1, ReadsEventsRest, CancelFinishesRest DEF Request
<1> QED
  BY <1>1, <1>2, SavesRest, PipelineRest, StartRunRest, RestartRest DEF Next

LEMMA RestInvariance == Spec => []RestOK
BY InitRest, StepRest, Invariance, EndsInvariance, PTL DEF Spec

\* RowAgreesAtRest in every reachable state: when every save is through and none
\* was rejected, the row tells what the pipeline's record tells, and it has ended
\* if the pipeline is over, whatever crashes, cancels and refreshes came between.
THEOREM RowAlwaysAgreesAtRest == Spec => []RowAgreesAtRest
<1>1. IInv /\ RestOK => RowAgreesAtRest
  <2> SUFFICES ASSUME IInv, RestOK, AtRest, row # NoRow
               PROVE  /\ OneWriter /\ restarts = 0 =>
                           /\ row.status = heap[1].status
                           /\ row.snapshot.status = heap[1].status
                           /\ row.completedAt = heap[1].terminal
                      /\ pipe \notin {"text", "render"} => Over(row)
    BY DEF RowAgreesAtRest, Ended, Over
  <2>1. chain = <<>> /\ failures = 0 /\ DOMAIN chain = {}
    BY DEF AtRest
  <2>2. OneWriter => RowCatchesUp
    BY DEF IInv
  <2>3. heap # <<>>
    BY HeadRecord
  <2> QED
    BY <2>1, <2>2, <2>3 DEF RowCatchesUp, RestOK
<1> QED
  BY <1>1, Invariance, RestInvariance, PTL

-----------------------------------------------------------------------------
(***************************************************************************)
(* The refinement of RunRow.                                               *)
(***************************************************************************)
\* What such a row is loaded with.
SeenTrue ==
  row # NoRow =>
    /\ ~row.completedAt => seen = "active"
    /\ row.completedAt => seen \in TerminalEvents /\ seen \in {row.snapshot.status, "failed"}
    /\ row.snapshot.status \in TerminalEvents /\ row.status \in TerminalEvents =>
         seen = row.snapshot.status

LEMMA SeenOK == TypeOK /\ EndsOK => SeenTrue
<1> SUFFICES ASSUME TypeOK, EndsOK, row # NoRow
             PROVE  /\ ~row.completedAt => seen = "active"
                    /\ row.completedAt =>
                         seen \in TerminalEvents /\ seen \in {row.snapshot.status, "failed"}
                    /\ row.snapshot.status \in TerminalEvents /\ row.status \in TerminalEvents =>
                         seen = row.snapshot.status
  BY DEF SeenTrue
<1> DEFINE rec == applyLoadedRows(row, rows, FALSE)
<1>1. /\ row.status \in Statuses /\ row.snapshot.status \in Statuses
      /\ row.completedAt \in BOOLEAN
      /\ row.status \in TerminalEvents => row.snapshot.status \in TerminalEvents
      /\ row.snapshot.status \in TerminalEvents => row.completedAt
  BY DEF TypeOK, SavedRow, EndsOK, EndsAlike
<1>2. /\ "failed" \in TerminalEvents
      /\ \A s \in Statuses : s \in {"queued", "running"} <=> s \notin TerminalEvents
  BY DEF Statuses, TerminalEvents
<1>3. seen = IF isActiveRun(rec) THEN "active" ELSE rec.status
  BY DEF seen
<1>4. CASE restoredInterruptedRun(row, FALSE)
  <2>1. rec.status = "failed" /\ rec.terminal = TRUE
    BY <1>4 DEF applyLoadedRows
  <2>2. row.completedAt /\ row.status \notin TerminalEvents
    BY <1>1, <1>2, <1>4 DEF restoredInterruptedRun, isActiveStatus
  <2> HIDE DEF rec
  <2> QED
    BY <1>1, <1>2, <1>3, <2>1, <2>2 DEF isActiveRun
<1>5. CASE ~restoredInterruptedRun(row, FALSE)
  <2>1. /\ rec.status = row.snapshot.status
        /\ rec.terminal = (row.status \in TerminalEvents \/ row.completedAt)
    BY <1>5 DEF applyLoadedRows
  <2>2. row.completedAt => row.status \in TerminalEvents
    BY <1>1, <1>2, <1>5 DEF restoredInterruptedRun, isActiveStatus
  <2> HIDE DEF rec
  <2> QED
    BY <1>1, <1>2, <1>3, <2>1, <2>2 DEF isActiveRun
<1> QED
  BY <1>4, <1>5

LEMMA SeenOKNext == TypeOK' /\ EndsOK' => SeenTrue'
BY SeenOK, PTL

\* seen reads nothing but the row.
LEMMA SeenOfRow ==
  ASSUME row' = row
  PROVE  seen' = seen
<1>1. CASE row = NoRow
  BY <1>1 DEF seen
<1>2. CASE row # NoRow
  <2> DEFINE a == applyLoadedRows(row, rows, FALSE)
             b == applyLoadedRows(row, rows', FALSE)
  <2>1. a.status = b.status /\ a.terminal = b.terminal
    BY DEF applyLoadedRows
  <2>2. /\ seen = IF isActiveRun(a) THEN "active" ELSE a.status
        /\ seen' = IF isActiveRun(b) THEN "active" ELSE b.status
    BY <1>2 DEF seen
  <2> HIDE DEF a, b
  <2> QED
    BY <2>1, <2>2 DEF isActiveRun
<1> QED
  BY <1>1, <1>2

\* Nothing happens to the run while its saves go on.
LEMMA SavesTellNothing ==
  ASSUME Saves
  PROVE  reached' = reached /\ OneWriter' = OneWriter
<1>1. UNCHANGED <<pipe, request, restarts>>
  BY DEF Saves, SaveRecord, SaveEvent, DeleteRow, SaveFails
<1>2. CancelDone' = CancelDone
  BY <1>1 DEF CancelDone
<1> QED
  BY <1>1, <1>2 DEF reached, OneWriter

\* A step adds to what has happened one thing at most.
LEMMA OneThingHappens ==
  ASSUME IInv, [Next]_vars
  PROVE  \/ reached' = reached
         \/ \E o \in Row!Outcomes \cup {"interrupted"} : reached' = reached \cup {o}
<1>1. Row!Outcomes = TerminalEvents
  BY DEF Row!Outcomes, TerminalEvents
<1>2. request \in [Requests -> RequestState] /\ PointersOK /\ restarts \in Nat
  BY DEF IInv, TypeOK
<1>3. ASSUME pipe' = pipe \/ {pipe, pipe'} \cap TerminalEvents = {},
             \A q \in Requests :
               request'[q].step = "cancelled" <=> request[q].step = "cancelled",
             restarts' = restarts
      PROVE  reached' = reached
  <2>1. CancelDone' = CancelDone
    BY <1>3 DEF CancelDone
  <2> QED
    BY <1>3, <2>1 DEF reached
<1>4. CASE Saves
  BY <1>4, SavesTellNothing
<1>5. CASE StartRun
  <2>1. UNCHANGED <<request, restarts>> /\ pipe = "none" /\ pipe' = "text"
    BY <1>5 DEF StartRun
  <2> QED
    BY <1>3, <2>1 DEF TerminalEvents
<1>6. CASE Pipeline
  <2>1. /\ UNCHANGED <<request, restarts>> /\ pipe \in {"text", "render"}
        /\ pipe' \in {"render", "completed", "failed", "stopped"}
    BY <1>6 DEF Pipeline, OpensSecondStage, Completes, Fails, Stops
  <2>2. CancelDone' = CancelDone
    BY <2>1 DEF CancelDone
  <2>3. reached' = reached \cup ({pipe'} \cap TerminalEvents)
    BY <2>1, <2>2 DEF reached, TerminalEvents
  <2> QED
    BY <1>1, <2>3
<1>7. CASE Restart
  <2>1. /\ restarts' # 0
        /\ pipe' = pipe \/ {pipe, pipe'} \cap TerminalEvents = {}
    BY <1>2, <1>7 DEF Restart, TerminalEvents
  <2>2. \A q \in Requests :
          request'[q].step = "cancelled" <=> request[q].step = "cancelled"
    BY <1>2, <1>7 DEF Restart, RequestState
  <2>3. CancelDone' = CancelDone
    BY <2>2 DEF CancelDone
  <2>4. reached' = reached \cup {"interrupted"}
    BY <2>1, <2>3 DEF reached
  <2> QED
    BY <2>4
<1>8. ASSUME NEW q \in Requests, ReadsRow(q) \/ ReadsEvents(q)
      PROVE  reached' = reached
  <2>1. UNCHANGED <<pipe, restarts>> /\ request[q].step # "cancelled"
    BY <1>8 DEF ReadsRow, ReadsEvents
  <2>2. /\ request'[q].step \in {"row_read", "answered", "cancelling", "refused", "deleted"}
        /\ \A p \in Requests : p # q => request'[p].step = request[p].step
    <3>1. CASE ReadsRow(q)
      BY <1>2, <3>1 DEF ReadsRow, RequestState
    <3>2. CASE ReadsEvents(q)
      <4>1. \E o, objects, saves : Continues(q, o, objects, saves)
        BY <3>2 DEF ReadsEvents
      <4>2. \E s \in {"answered", "cancelling", "refused", "deleted"} : \E o :
              request' = [request EXCEPT ![q].step = s, ![q].object = o]
        BY <4>1 DEF Continues
      <4> QED
        BY <1>2, <4>2 DEF RequestState
    <3> QED
      BY <1>8, <3>1, <3>2
  <2> QED
    BY <1>3, <2>1, <2>2
<1>9. ASSUME NEW q \in Requests, CancelFinishes(q)
      PROVE  reached' = reached \cup {"cancelled"}
  <2>1. UNCHANGED <<pipe, restarts>> /\ Kind[q] = "cancel"
        /\ request' = [request EXCEPT ![q].step = "cancelled"]
    BY <1>2, <1>9 DEF CancelFinishes, PointersOK
  <2>2. CancelDone'
    BY <1>2, <2>1 DEF CancelDone, RequestState
  <2> QED
    BY <2>1, <2>2 DEF reached
<1>10. CASE UNCHANGED vars
  BY <1>3, <1>10 DEF vars
<1>11. "cancelled" \in Row!Outcomes
  BY DEF Row!Outcomes
<1> QED
  BY <1>4, <1>5, <1>6, <1>7, <1>8, <1>9, <1>10, <1>11 DEF Next, Request

\* Every step of the store is one the abstract row allows.
LEMMA RowStep ==
  ASSUME IInv, IInv', EndsOK, EndsOK', [Next]_vars
  PROVE  [Row!Next]_Row!vars
<1>1. /\ TypeOK /\ PointersOK /\ row \in SavedRow \cup {NoRow}
      /\ Row!Outcomes = TerminalEvents /\ "failed" \in TerminalEvents
      /\ "none" \notin TerminalEvents /\ "active" \notin TerminalEvents
      /\ SeenTrue /\ SeenTrue'
  BY SeenOK, SeenOKNext DEF IInv, TypeOK, Row!Outcomes, TerminalEvents
<1>2. CASE row' = row
  BY <1>2, SeenOfRow, OneThingHappens DEF Row!Next, Row!Reach, Row!vars
<1>3. CASE DeleteRow
  <2>1. row' = NoRow /\ reached' = reached
    BY <1>3, SavesTellNothing DEF DeleteRow, Saves
  <2>2. Row!Delete
    BY <2>1 DEF Row!Delete, seen
  <2> QED
    BY <2>2 DEF Row!Next
<1>4. CASE SaveRecord
  <2>1. /\ reached' = reached /\ OneWriter' = OneWriter
        /\ chain # <<>> /\ chain[1].event # "delete"
        /\ row' = upsertRecord(heap[chain[1].object], chain[1].event)
    BY <1>1, <1>4, HeadJob, SavesTellNothing DEF SaveRecord, Saves
  <2>2. /\ row' \in SavedRow /\ row' # NoRow /\ EndsAlike(row')
        /\ Ended(row) => row'.completedAt
    BY <1>1, <1>4, SavedAlike, RowsDiffer
  <2>3. /\ row = NoRow => seen = "none"
        /\ row # NoRow /\ ~row.completedAt => seen = "active"
        /\ row # NoRow /\ row.completedAt <=> seen \in TerminalEvents
    BY <1>1 DEF SeenTrue, seen
  <2>4. CASE ~row'.completedAt
    <3>1. seen' = "active" /\ seen \in {"none", "active"}
      BY <1>1, <2>2, <2>3, <2>4 DEF SeenTrue, Ended
    <3> QED
      BY <2>1, <3>1 DEF Row!Next, Row!Appear, Row!vars
  <2>5. CASE row'.completedAt /\ ~OneWriter
    <3>1. "cancelled" \in reached
      BY <2>5 DEF OneWriter, reached
    <3>2. /\ seen' \in TerminalEvents /\ seen' \in {row'.snapshot.status, "failed"}
      BY <1>1, <2>2, <2>5 DEF SeenTrue
    <3>3. seen' = "failed" \/ seen' \in reached
      <4>1. /\ row'.snapshot.status = "completed" => pipe' = "completed"
            /\ row'.snapshot.status = "cancelled" => CancelDone'
        BY <2>2 DEF IInv, EveryOutcomeTold, RowTold, Told
      <4>2. seen' \in reached' \/ seen' = "failed"
        BY <3>2, <4>1 DEF reached, TerminalEvents
      <4> QED
        BY <2>1, <4>2
    <3>4. Row!Show(seen')
      BY <2>1, <3>1, <3>3 DEF Row!Show, Row!TwoWriters
    <3> QED
      BY <1>1, <3>2, <3>4 DEF Row!Next
  <2>6. CASE row'.completedAt /\ OneWriter
    <3>1. /\ heap # <<>> /\ row'.status = heap[1].status
          /\ row'.snapshot.status = heap[1].status
          /\ row'.completedAt = heap[1].terminal
          /\ heap[1].terminal = (heap[1].status \in TerminalEvents)
      BY <1>1, <2>1, <2>6, SaveAgrees DEF IInv
    <3>2. heap[1].status \in TerminalEvents /\ seen' = heap[1].status
      BY <1>1, <2>2, <2>6, <3>1 DEF SeenTrue
    <3>3. CASE row # NoRow /\ row.completedAt
      <4>1. row.status = heap[1].status /\ row.snapshot.status = heap[1].status
        BY <2>6, <3>3 DEF IInv, Single, RowAgrees
      <4>2. seen = heap[1].status
        BY <1>1, <3>2, <3>3, <4>1 DEF SeenTrue
      <4> QED
        BY <2>1, <3>2, <4>2 DEF Row!vars
    <3>4. CASE ~(row # NoRow /\ row.completedAt)
      <4>1. seen \notin TerminalEvents
        BY <2>3, <3>4
      <4>2. seen' \in reached \/ (seen' = "failed" /\ "interrupted" \in reached)
        <5>1. CASE restarts = 0
          <6>1. heap[1].status = pipe
            BY <2>6, <3>1, <3>2, <5>1 DEF EndsOK, OwnEnd
          <6> QED
            BY <3>2, <6>1 DEF reached
        <5>2. CASE restarts # 0
          <6>1. /\ heap[1].status = "completed" => pipe' = "completed"
                /\ heap[1].status # "cancelled"
            <7>1. /\ row'.status = "completed" => pipe' = "completed"
                  /\ row'.status = "cancelled" => CancelDone'
              BY <2>2 DEF IInv, EveryOutcomeTold, RowTold, Told
            <7> QED
              BY <2>1, <2>6, <3>1, <7>1 DEF OneWriter
          <6>2. "interrupted" \in reached'
            BY <5>2, <1>4 DEF reached, SaveRecord
          <6>3. seen' \in reached' \/ seen' = "failed"
            BY <3>2, <6>1 DEF reached, TerminalEvents
          <6> QED
            BY <2>1, <6>2, <6>3
        <5> QED
          BY <5>1, <5>2
      <4>3. Row!Show(seen')
        BY <1>1, <2>1, <4>1, <4>2 DEF Row!Show
      <4> QED
        BY <1>1, <3>2, <4>3 DEF Row!Next
    <3> QED
      BY <3>3, <3>4
  <2> QED
    BY <2>4, <2>5, <2>6
<1> QED
  BY <1>2, <1>3, <1>4, RowWritten

\* The row of a run implements the abstract row, for any requests, crashes and
\* rejected saves: no end is taken back and no outcome is made up, and unless
\* somebody cancels the first outcome told is the one that stays.
THEOREM RowKept == Spec => KeepsRow
<1>1. Init => Row!Init
  BY DEF Init, Row!Init, seen, reached, CancelDone, TerminalEvents
<1>2. IInv /\ IInv' /\ EndsOK /\ EndsOK' /\ [Next]_vars => [Row!Next]_Row!vars
  BY RowStep
<1> QED
  BY <1>1, <1>2, Invariance, EndsInvariance, PTL DEF Spec, KeepsRow, Row!Spec
=============================================================================
