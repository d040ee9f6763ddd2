-------------------------- MODULE RunRecordLemmas --------------------------
(***************************************************************************)
(* What the operations of RunRecords do to a record, for every record.     *)
(***************************************************************************)
EXTENDS RunRecords, SequenceTheorems, TLAPS

\* The places of the terminal events in a log.
Ends(evs) == {i \in DOMAIN evs : isTerminalRunEvent(evs[i])}

\* The log of rec is closed by one terminal event, or open without any.
LogOK(rec) ==
  /\ rec \in RunRecord
  /\ rec.terminal => \E i \in Ends(rec.events) : Ends(rec.events) = {i}
  /\ ~rec.terminal => Ends(rec.events) = {}

\* ... and the status agrees with the log.
RecordOK(rec) ==
  /\ LogOK(rec)
  /\ rec.terminal => \A i \in Ends(rec.events) : rec.status = rec.events[i]
  /\ ~rec.terminal => rec.status \in {"queued", "running"}

\* new is rec after some more calls: a closed record only got run_action
\* events.
Evolves(rec, new) ==
  /\ RecordOK(new)
  /\ Len(rec.events) <= Len(new.events)
  /\ \A i \in DOMAIN rec.events : new.events[i] = rec.events[i]
  /\ rec.terminal =>
       /\ new.terminal
       /\ new.status = rec.status
       /\ \A i \in DOMAIN new.events :
            i > Len(rec.events) => new.events[i] = "run_action"

\* Records evolve by doing nothing, and evolving twice is evolving.
LEMMA EvolvesRefl ==
  ASSUME NEW rec, RecordOK(rec)
  PROVE  Evolves(rec, rec)
<1>1. rec.events \in Seq(Events)
  BY DEF RecordOK, LogOK, RunRecord
<1> QED BY <1>1 DEF Evolves

LEMMA EvolvesTrans ==
  ASSUME NEW a, NEW b, NEW c, RecordOK(a), Evolves(a, b), Evolves(b, c)
  PROVE  Evolves(a, c)
<1>1. /\ a.events \in Seq(Events) /\ b.events \in Seq(Events)
      /\ c.events \in Seq(Events)
  BY DEF Evolves, RecordOK, LogOK, RunRecord
<1>2. Len(a.events) <= Len(c.events)
  BY <1>1 DEF Evolves
<1>3. \A i \in DOMAIN a.events : c.events[i] = a.events[i]
  BY <1>1 DEF Evolves
<1>4. ASSUME a.terminal
      PROVE  /\ c.terminal
             /\ c.status = a.status
             /\ \A i \in DOMAIN c.events :
                  i > Len(a.events) => c.events[i] = "run_action"
  BY <1>1, <1>4 DEF Evolves
<1> QED BY <1>2, <1>3, <1>4 DEF Evolves

\* The empty record, and the one with its queued event, are open.
LEMMA EmptyOK == RecordOK(EmptyRecord)
BY DEF RecordOK, LogOK, Ends, RunRecord, EmptyRecord, Statuses, RunErrors,
       TerminalEvents, PipelineErrors

\* A closed log has one terminal event, and restoring finds it.
LEMMA RestoreOK ==
  ASSUME NEW rec, LogOK(rec), rec.terminal
  PROVE  LET new == restoreRecordedTerminalStatus(rec)
         IN  /\ RecordOK(new)
             /\ new.events = rec.events
             /\ new.terminal = rec.terminal
<1>1. PICK i \in Ends(rec.events) : Ends(rec.events) = {i}
  BY DEF LogOK
<1>2. /\ i \in DOMAIN rec.events
      /\ isTerminalRunEvent(rec.events[i])
      /\ \A j \in DOMAIN rec.events : isTerminalRunEvent(rec.events[j]) => j = i
  BY <1>1 DEF Ends
<1>3. rec \in RunRecord /\ rec.events \in Seq(Events)
  BY DEF LogOK, RunRecord
<1>4. HasTerminalEvent(rec.events)
  BY <1>2 DEF HasTerminalEvent
<1>5. FirstTerminal(rec.events) = i
  BY <1>2, <1>3 DEF FirstTerminal
<1>6. restoreRecordedTerminalStatus(rec) = [rec EXCEPT !.status = rec.events[i]]
  BY <1>4, <1>5 DEF restoreRecordedTerminalStatus
<1>7. rec.events[i] \in Statuses
  BY <1>2 DEF isTerminalRunEvent, Statuses
<1> QED BY <1>1, <1>3, <1>6, <1>7 DEF RecordOK, LogOK, RunRecord

\* A terminal event that reaches a closed record leaves the log alone and puts
\* the status back, whatever the caller wrote there.
LEMMA EmitEndOnClosed ==
  ASSUME NEW rec, LogOK(rec), rec.terminal, NEW e \in TerminalEvents
  PROVE  LET new == emitEvent(rec, e)
         IN  /\ RecordOK(new)
             /\ new.events = rec.events
             /\ new.terminal = rec.terminal
BY RestoreOK DEF emitEvent, isTerminalRunEvent, TerminalEvents

\* A terminal event that reaches an open record closes it.
LEMMA EmitEndOnOpen ==
  ASSUME NEW rec, LogOK(rec), ~rec.terminal, NEW e \in TerminalEvents,
         rec.status = e
  PROVE  LET new == emitEvent(rec, e)
         IN  /\ RecordOK(new)
             /\ new.events = Append(rec.events, e)
             /\ new.terminal
<1> DEFINE new == emitEvent(rec, e)
<1>1. rec \in RunRecord /\ rec.events \in Seq(Events) /\ e \in Events
  BY DEF LogOK, RunRecord, Events
<1>2. new = [rec EXCEPT !.events = Append(rec.events, e), !.terminal = TRUE]
  BY <1>1 DEF emitEvent, isTerminalRunEvent, RunRecord
<1> HIDE DEF new
<1>3. Append(rec.events, e) \in Seq(Events)
  BY <1>1
<1>4. /\ new \in RunRecord
      /\ new.events = Append(rec.events, e)
      /\ new.terminal = TRUE
      /\ new.status = e
  BY <1>1, <1>2, <1>3 DEF RunRecord
<1>5. Ends(new.events) = {Len(rec.events) + 1}
  BY <1>1, <1>4 DEF LogOK, Ends, isTerminalRunEvent
<1>6. new.events[Len(rec.events) + 1] = e
  BY <1>1, <1>4
<1> QED BY <1>4, <1>5, <1>6 DEF RecordOK, LogOK, new

\* Any other event is taken by an open record and, but for run_action, dropped
\* by a closed one.
LEMMA EmitProgress ==
  ASSUME NEW rec, RecordOK(rec), NEW e \in Events \ TerminalEvents
  PROVE  Evolves(rec, emitEvent(rec, e)) /\ emitEvent(rec, e).terminal = rec.terminal
<1> DEFINE new == emitEvent(rec, e)
<1>1. rec \in RunRecord /\ rec.events \in Seq(Events)
  BY DEF RecordOK, LogOK, RunRecord
<1>2. CASE rec.terminal /\ e # "run_action"
  <2>1. new = rec
    BY <1>2 DEF emitEvent, isTerminalRunEvent
  <2> QED BY <2>1, EvolvesRefl
<1>3. CASE ~(rec.terminal /\ e # "run_action")
  <2>1. new = [rec EXCEPT !.events = Append(rec.events, e)]
    BY <1>1, <1>3 DEF emitEvent, isTerminalRunEvent, RunRecord
  <2>2. /\ new \in RunRecord
        /\ new.events = Append(rec.events, e)
        /\ new.terminal = rec.terminal
        /\ new.status = rec.status
    BY <1>1, <2>1 DEF RunRecord
  <2>3. Ends(new.events) = Ends(rec.events)
    BY <1>1, <2>2 DEF Ends, isTerminalRunEvent
  <2>4. \A i \in Ends(rec.events) : new.events[i] = rec.events[i]
    BY <1>1, <2>2 DEF Ends
  <2>5. RecordOK(new)
    BY <2>2, <2>3, <2>4 DEF RecordOK, LogOK
  <2>6. rec.terminal => e = "run_action"
    BY <1>3
  <2>7. \A i \in DOMAIN new.events :
          IF i <= Len(rec.events) THEN new.events[i] = rec.events[i]
                                  ELSE new.events[i] = e
    BY <1>1, <2>2
  <2> QED BY <1>1, <2>2, <2>5, <2>6, <2>7 DEF Evolves
<1> QED BY <1>2, <1>3

\* Ending a run: an open record closes with that status; a closed record keeps
\* its log and its status, and its error may be overwritten.
LEMMA EndEvolves ==
  ASSUME NEW rec, RecordOK(rec), NEW e \in TerminalEvents, NEW err \in RunErrors
  PROVE  LET new == emitEvent([rec EXCEPT !.status = e, !.error = err], e)
         IN  Evolves(rec, new) /\ new.terminal
<1> DEFINE mid == [rec EXCEPT !.status = e, !.error = err]
           new == emitEvent(mid, e)
<1>1. rec \in RunRecord /\ rec.events \in Seq(Events)
  BY DEF RecordOK, LogOK, RunRecord
<1>2. /\ mid \in RunRecord
      /\ mid.events = rec.events
      /\ mid.terminal = rec.terminal
      /\ mid.status = e
  BY <1>1 DEF RunRecord, Statuses
<1>3. LogOK(mid)
  BY <1>2 DEF RecordOK, LogOK
<1>4. CASE rec.terminal
  <2>1. RecordOK(new) /\ new.events = rec.events /\ new.terminal
    BY <1>2, <1>3, <1>4, EmitEndOnClosed
  <2>2. new.status = rec.status
    BY <1>4, <2>1 DEF RecordOK, LogOK
  <2> QED BY <1>1, <2>1, <2>2 DEF Evolves
<1>5. CASE ~rec.terminal
  <2>1. RecordOK(new) /\ new.events = Append(rec.events, e) /\ new.terminal
    BY <1>2, <1>3, <1>5, EmitEndOnOpen
  <2> QED BY <1>1, <1>5, <2>1 DEF Evolves
<1> QED BY <1>4, <1>5

\* Opening a stage is safe on an open record only: updateStage checks first.
LEMMA OpenStageEvolves ==
  ASSUME NEW rec, RecordOK(rec), ~rec.terminal
  PROVE  /\ Evolves(rec, openStage(rec))
         /\ ~openStage(rec).terminal
<1> DEFINE mid == [rec EXCEPT !.status = "running"]
<1>1. rec \in RunRecord /\ rec.events \in Seq(Events)
  BY DEF RecordOK, LogOK, RunRecord
<1>2. /\ mid \in RunRecord
      /\ mid.events = rec.events
      /\ mid.terminal = rec.terminal
      /\ mid.status = "running"
  BY <1>1 DEF RunRecord, Statuses
<1>3. RecordOK(mid)
  BY <1>2 DEF RecordOK, LogOK
<1>4. Evolves(rec, mid)
  BY <1>1, <1>2, <1>3 DEF Evolves
<1>5. "stage_started" \in Events \ TerminalEvents
  BY DEF Events, TerminalEvents
<1>6. Evolves(mid, openStage(rec)) /\ openStage(rec).terminal = mid.terminal
  BY <1>3, <1>5, EmitProgress DEF openStage
<1> QED BY <1>2, <1>4, <1>6, EvolvesTrans

\* The part of a log that follows its first m events.
LEMMA LogSuffix ==
  ASSUME NEW s \in Seq(Events), NEW m \in Nat, m <= Len(s)
  PROVE  LET fresh == SubSeq(s, m + 1, Len(s))
         IN  /\ fresh \in Seq(Events)
             /\ Len(fresh) = Len(s) - m
             /\ \A i \in DOMAIN fresh : i \in Nat /\ i + m \in DOMAIN s
                                        /\ fresh[i] = s[i + m]
<1> DEFINE n == Len(s)
           fresh == SubSeq(s, m + 1, n)
<1>1. m + 1 \in Int /\ n \in Int /\ DOMAIN s = 1..n
  OBVIOUS
<1>2. \A i \in (m + 1)..n : s[i] \in Events
  OBVIOUS
<1> HIDE DEF n
<1>3. fresh \in Seq(Events)
  BY <1>1, <1>2, SubSeqProperties, SMT
<1>4. Len(fresh) = IF m + 1 <= n THEN n - (m + 1) + 1 ELSE 0
  BY <1>1
<1>5. \A i \in 1..n - (m + 1) + 1 : fresh[i] = s[(m + 1) + i - 1]
  BY <1>1
<1> HIDE DEF fresh
<1>6. m <= n
  BY DEF n
<1>7. Len(fresh) = n - m /\ DOMAIN fresh = 1..(n - m)
  <2>1. Len(fresh) = n - m
    BY <1>1, <1>4, <1>6
  <2> QED BY <1>3, <2>1
<1>8. ASSUME NEW i \in 1..(n - m)
      PROVE  i \in Nat /\ i + m \in DOMAIN s /\ fresh[i] = s[i + m]
  <2>1. i \in 1..n - (m + 1) + 1 /\ (m + 1) + i - 1 = i + m
    BY <1>1
  <2>2. fresh[i] = s[(m + 1) + i - 1]
    BY <2>1, <1>5
  <2> QED BY <2>1, <2>2, <1>1
<1> QED BY <1>3, <1>7, <1>8 DEF fresh, n

\* The events a record took in a step: a part of its log with at most one
\* terminal event.
LEMMA FreshEvents ==
  ASSUME NEW old, NEW new, RecordOK(old), Evolves(old, new)
  PROVE  LET fresh == SubSeq(new.events, Len(old.events) + 1, Len(new.events))
         IN  /\ fresh \in Seq(Events)
             /\ \A i, j \in DOMAIN fresh :
                  isTerminalRunEvent(fresh[i]) /\ isTerminalRunEvent(fresh[j])
                    => i = j
<1> DEFINE m == Len(old.events)
           fresh == SubSeq(new.events, m + 1, Len(new.events))
<1>1. old.events \in Seq(Events) /\ new.events \in Seq(Events)
  BY DEF Evolves, RecordOK, LogOK, RunRecord
<1>2. m \in Nat /\ m <= Len(new.events)
  BY <1>1 DEF Evolves
<1>3. \A i, j \in DOMAIN new.events :
        isTerminalRunEvent(new.events[i]) /\ isTerminalRunEvent(new.events[j])
          => i = j
  <2>1. \A i, j \in Ends(new.events) : i = j
    BY DEF Evolves, RecordOK, LogOK
  <2> QED BY <2>1 DEF Ends
<1> HIDE DEF m
<1>4. /\ fresh \in Seq(Events)
      /\ \A i \in DOMAIN fresh : /\ i \in Nat
                                 /\ i + m \in DOMAIN new.events
                                 /\ fresh[i] = new.events[i + m]
  BY <1>1, <1>2, LogSuffix
<1> HIDE DEF fresh
<1>5. ASSUME NEW i \in DOMAIN fresh, NEW j \in DOMAIN fresh,
             isTerminalRunEvent(fresh[i]), isTerminalRunEvent(fresh[j])
      PROVE  i = j
  <2>1. i + m = j + m
    BY <1>3, <1>4, <1>5
  <2> QED BY <1>2, <1>4, <2>1
<1> QED BY <1>4, <1>5 DEF fresh, m

\* What a listener is sent of an evolved record is made of events.
LEMMA DeliverOK ==
  ASSUME NEW R, NEW stream \in [run : R, sent : Seq(Events), open : BOOLEAN],
         NEW old, NEW new, RecordOK(old), Evolves(old, new)
  PROVE  deliver(stream, old, new) \in [run : R, sent : Seq(Events), open : BOOLEAN]
<1> DEFINE fresh == SubSeq(new.events, Len(old.events) + 1, Len(new.events))
<1>1. deliver(stream, old, new) =
        [stream EXCEPT !.sent = stream.sent \o UptoTerminal(fresh),
                       !.open = ~HasTerminalEvent(fresh)]
  BY DEF deliver
<1>2. /\ fresh \in Seq(Events)
      /\ \A i, j \in DOMAIN fresh :
           isTerminalRunEvent(fresh[i]) /\ isTerminalRunEvent(fresh[j]) => i = j
  BY FreshEvents
<1> HIDE DEF fresh
<1>3. UptoTerminal(fresh) \in Seq(Events)
  <2>1. CASE ~HasTerminalEvent(fresh)
    BY <1>2, <2>1 DEF UptoTerminal
  <2>2. CASE HasTerminalEvent(fresh)
    <3>1. PICK i \in DOMAIN fresh : isTerminalRunEvent(fresh[i])
      BY <2>2 DEF HasTerminalEvent
    <3>2. FirstTerminal(fresh) = i
      BY <1>2, <3>1 DEF FirstTerminal
    <3>3. SubSeq(fresh, 1, i) \in Seq(Events)
      BY <1>2
    <3> QED BY <2>2, <3>2, <3>3 DEF UptoTerminal
  <2> QED BY <2>1, <2>2
<1>4. stream.sent \o UptoTerminal(fresh) \in Seq(Events)
  BY <1>3
<1>5. HasTerminalEvent(fresh) \in BOOLEAN
  BY DEF HasTerminalEvent
<1> QED BY <1>1, <1>4, <1>5

(***************************************************************************)
(* Streams.                                                                *)
(***************************************************************************)
\* An open stream has sent the log, a closed one a part that ends the run.
Agrees(stream, evs) ==
  IF stream.open
  THEN stream.sent = evs
  ELSE /\ HasTerminalEvent(stream.sent)
       /\ Len(stream.sent) <= Len(evs)
       /\ stream.sent = SubSeq(evs, 1, Len(stream.sent))

\* A log that begins like another one has its first events.
LEMMA LogPrefix ==
  ASSUME NEW s \in Seq(Events), NEW t \in Seq(Events), Len(s) <= Len(t),
         \A i \in 1..Len(s) : s[i] = t[i]
  PROVE  s = SubSeq(t, 1, Len(s))
<1> DEFINE k == Len(s)
<1>1. k \in Nat /\ DOMAIN t = 1..Len(t) /\ Len(t) \in Nat
  OBVIOUS
<1>2. \A i \in 1..k : t[i] \in Events
  BY <1>1
<1> HIDE DEF k
<1>3. /\ SubSeq(t, 1, k) \in Seq(Events)
      /\ Len(SubSeq(t, 1, k)) = k
      /\ \A i \in 1..k : SubSeq(t, 1, k)[i] = t[i]
  <2>1. /\ SubSeq(t, 1, k) \in Seq(Events)
        /\ Len(SubSeq(t, 1, k)) = IF 1 <= k THEN k - 1 + 1 ELSE 0
        /\ \A i \in 1 .. k - 1 + 1 : SubSeq(t, 1, k)[i] = t[1 + i - 1]
    BY <1>1, <1>2, SubSeqProperties
  <2> QED BY <1>1, <2>1
<1>4. \A i \in 1..Len(s) : s[i] = SubSeq(t, 1, k)[i]
  BY <1>3 DEF k
<1> QED BY <1>3, <1>4, SeqEqual DEF k

\* A closed stream goes on agreeing with a log that only grows.
LEMMA ClosedAgrees ==
  ASSUME NEW stream, stream.sent \in Seq(Events), ~stream.open,
         NEW old, NEW new, RecordOK(old), Evolves(old, new),
         Agrees(stream, old.events)
  PROVE  Agrees(stream, new.events)
<1> DEFINE s == stream.sent
<1>1. /\ old.events \in Seq(Events) /\ new.events \in Seq(Events)
      /\ Len(old.events) <= Len(new.events)
      /\ \A i \in DOMAIN old.events : new.events[i] = old.events[i]
  BY DEF Evolves, RecordOK, LogOK, RunRecord
<1>2. /\ HasTerminalEvent(s) /\ Len(s) <= Len(old.events)
      /\ s = SubSeq(old.events, 1, Len(s))
  BY DEF Agrees
<1>3. Len(s) \in Nat /\ Len(s) <= Len(new.events)
  BY <1>1, <1>2
<1>4. \A i \in 1..Len(s) : s[i] = new.events[i]
  <2> DEFINE k == Len(s)
  <2>1. \A i \in 1..k : old.events[i] \in Events
    BY <1>1, <1>2
  <2> HIDE DEF k
  <2>2. \A i \in 1 .. k - 1 + 1 : SubSeq(old.events, 1, k)[i] = old.events[1 + i - 1]
    BY <1>3, <2>1, SubSeqProperties DEF k
  <2>3. \A i \in 1..k : SubSeq(old.events, 1, k)[i] = old.events[i]
    BY <1>3, <2>2 DEF k
  <2>4. \A i \in 1..k : i \in DOMAIN old.events
    BY <1>1, <1>2 DEF k
  <2>5. s = SubSeq(old.events, 1, k)
    BY <1>2 DEF k
  <2> HIDE DEF s
  <2> QED BY <1>1, <2>3, <2>4, <2>5 DEF k
<1>5. s = SubSeq(new.events, 1, Len(s))
  BY <1>1, <1>3, <1>4, LogPrefix
<1> QED BY <1>2, <1>3, <1>5 DEF Agrees

\* A listener that had sent the whole log has, after an update, sent all of it
\* again or all up to its end.
LEMMA DeliverAgrees ==
  ASSUME NEW R, NEW stream \in [run : R, sent : Seq(Events), open : BOOLEAN],
         NEW old, NEW new, RecordOK(old), Evolves(old, new),
         stream.sent = old.events
  PROVE  /\ Agrees(deliver(stream, old, new), new.events)
         /\ deliver(stream, old, new).run = stream.run
<1> DEFINE m == Len(old.events)
           n == Len(new.events)
           fresh == SubSeq(new.events, m + 1, n)
           told == deliver(stream, old, new)
<1>1. /\ old.events \in Seq(Events) /\ new.events \in Seq(Events)
      /\ Len(old.events) = m /\ Len(new.events) = n
      /\ m \in Nat /\ n \in Nat /\ m <= n
      /\ DOMAIN old.events = 1..m /\ DOMAIN new.events = 1..n
      /\ \A i \in 1..m : new.events[i] = old.events[i]
  BY DEF Evolves, RecordOK, LogOK, RunRecord
<1>2. /\ fresh \in Seq(Events)
      /\ \A i \in DOMAIN fresh : /\ i \in Nat
                                 /\ i + m \in DOMAIN new.events
                                 /\ fresh[i] = new.events[i + m]
  BY <1>1, LogSuffix
<1>3. Len(fresh) = n - m
  <2>1. \A i \in (m + 1)..n : new.events[i] \in Events
    BY <1>1
  <2> HIDE DEF m, n
  <2>2. Len(fresh) = IF m + 1 <= n THEN n - (m + 1) + 1 ELSE 0
    BY <1>1, <2>1, SubSeqProperties
  <2> QED BY <1>1, <2>2
<1>4. \A i, j \in DOMAIN fresh :
        isTerminalRunEvent(fresh[i]) /\ isTerminalRunEvent(fresh[j]) => i = j
  BY FreshEvents
<1>5. /\ told.sent = old.events \o UptoTerminal(fresh)
      /\ told.open = ~HasTerminalEvent(fresh)
      /\ told.run = stream.run
  BY DEF deliver
<1> HIDE DEF fresh, told, m, n
<1>6. \A k \in 0..(n - m) : \A part \in Seq(Events) :
        Len(part) = k /\ (\A i \in 1..k : part[i] = fresh[i])
          => /\ old.events \o part \in Seq(Events)
             /\ Len(old.events \o part) = m + k
             /\ \A i \in 1..(m + k) : (old.events \o part)[i] = new.events[i]
             /\ \A i \in 1..k : (old.events \o part)[m + i] = fresh[i]
  <2> SUFFICES ASSUME NEW k \in 0..(n - m), NEW part \in Seq(Events),
                      Len(part) = k, \A i \in 1..k : part[i] = fresh[i]
               PROVE  /\ old.events \o part \in Seq(Events)
                      /\ Len(old.events \o part) = m + k
                      /\ \A i \in 1..(m + k) : (old.events \o part)[i] = new.events[i]
                      /\ \A i \in 1..k : (old.events \o part)[m + i] = fresh[i]
    OBVIOUS
  <2>1. /\ old.events \o part \in Seq(Events)
        /\ Len(old.events \o part) = m + k
        /\ \A i \in 1..(m + k) : (old.events \o part)[i] =
              IF i <= m THEN old.events[i] ELSE part[i - m]
    <3>1. /\ old.events \o part \in Seq(Events)
          /\ Len(old.events \o part) = Len(old.events) + Len(part)
          /\ \A i \in 1..(Len(old.events) + Len(part)) : (old.events \o part)[i] =
                IF i <= Len(old.events) THEN old.events[i]
                                        ELSE part[i - Len(old.events)]
      <4>1. old.events \in Seq(Events) /\ part \in Seq(Events)
        BY <1>1
      <4> QED BY <4>1, ConcatProperties, Zenon
    <3> QED BY <1>1, <3>1
  <2>2. k \in Nat /\ k <= n - m
    BY <1>1
  <2>3. DOMAIN fresh = 1..(n - m)
    BY <1>2, <1>3
  <2>4. \A i \in 1..k : i \in DOMAIN fresh
    BY <1>1, <2>2, <2>3
  <2>5. ASSUME NEW i \in 1..(m + k)
        PROVE  (old.events \o part)[i] = new.events[i]
    <3>1. CASE i <= m
      BY <1>1, <2>1, <2>2, <3>1
    <3>2. CASE ~(i <= m)
      <4>1. i - m \in 1..k /\ (i - m) + m = i
        BY <1>1, <2>2, <3>2
      <4>2. part[i - m] = new.events[i]
        BY <1>2, <2>4, <4>1
      <4> QED BY <2>1, <3>2, <4>2
    <3> QED BY <3>1, <3>2
  <2>6. ASSUME NEW i \in 1..k
        PROVE  (old.events \o part)[m + i] = fresh[i]
    <3>1. m + i \in 1..(m + k) /\ ~(m + i <= m) /\ (m + i) - m = i
      BY <1>1, <2>2
    <3> QED BY <2>1, <3>1
  <2> QED BY <2>1, <2>5, <2>6
<1>7. CASE ~HasTerminalEvent(fresh)
  <2>1. UptoTerminal(fresh) = fresh
    BY <1>7 DEF UptoTerminal
  <2>2. n - m \in 0..(n - m) /\ m + (n - m) = n
    BY <1>1
  <2>3. /\ told.sent \in Seq(Events) /\ Len(told.sent) = n
        /\ \A i \in 1..n : told.sent[i] = new.events[i]
    <3>1. fresh \in Seq(Events) /\ Len(fresh) = n - m
      BY <1>2, <1>3
    <3>2. \A i \in 1..(n - m) : fresh[i] = fresh[i]
      OBVIOUS
    <3>3. /\ old.events \o fresh \in Seq(Events)
          /\ Len(old.events \o fresh) = m + (n - m)
          /\ \A i \in 1..(m + (n - m)) : (old.events \o fresh)[i] = new.events[i]
      BY <1>6, <2>2, <3>1, <3>2, Zenon
    <3> QED BY <1>5, <2>1, <2>2, <3>3
  <2>4. told.sent = new.events
    BY <1>1, <2>3, SeqEqual
  <2>5. Agrees(told, new.events)
    BY <1>5, <1>7, <2>4 DEF Agrees
  <2> QED BY <1>5, <2>5 DEF told
<1>8. CASE HasTerminalEvent(fresh)
  <2>1. PICK i \in DOMAIN fresh : isTerminalRunEvent(fresh[i])
    BY <1>8 DEF HasTerminalEvent
  <2>2. FirstTerminal(fresh) = i
    BY <1>4, <2>1 DEF FirstTerminal
  <2> DEFINE part == SubSeq(fresh, 1, i)
  <2>3. i \in 1..(n - m)
    BY <1>2, <1>3, <2>1
  <2>4. \A j \in 1..i : fresh[j] \in Events
    BY <1>1, <1>2, <1>3, <2>3
  <2>5. i \in Nat /\ i \in 0..(n - m) /\ 1 <= i
    BY <1>1, <2>3
  <2>6. part \in Seq(Events) /\ Len(part) = i /\ \A j \in 1..i : part[j] = fresh[j]
    <3>1. /\ part \in Seq(Events)
          /\ Len(part) = IF 1 <= i THEN i - 1 + 1 ELSE 0
          /\ \A j \in 1 .. i - 1 + 1 : part[j] = fresh[1 + j - 1]
      BY <2>4, <2>5, SubSeqProperties
    <3> QED BY <2>5, <3>1
  <2>7. told.sent = old.events \o part
    BY <1>5, <1>8, <2>2 DEF UptoTerminal
  <2> HIDE DEF part
  <2>8. /\ told.sent \in Seq(Events) /\ Len(told.sent) = m + i
        /\ \A j \in 1..(m + i) : told.sent[j] = new.events[j]
        /\ told.sent[m + i] = fresh[i]
    <3>1. /\ old.events \o part \in Seq(Events)
          /\ Len(old.events \o part) = m + i
          /\ \A j \in 1..(m + i) : (old.events \o part)[j] = new.events[j]
          /\ \A j \in 1..i : (old.events \o part)[m + j] = fresh[j]
      BY <1>6, <2>5, <2>6, Zenon
    <3>2. i \in 1..i
      BY <2>5
    <3> QED BY <2>7, <3>1, <3>2
  <2>9. m + i <= n /\ m + i \in 1..(m + i)
    BY <1>1, <2>3
  <2>10. told.sent = SubSeq(new.events, 1, Len(told.sent))
    BY <1>1, <2>8, <2>9, LogPrefix
  <2>11. HasTerminalEvent(told.sent)
    <3>1. m + i \in DOMAIN told.sent
      BY <2>8, <2>9
    <3>2. isTerminalRunEvent(told.sent[m + i])
      BY <2>1, <2>8
    <3> QED BY <3>1, <3>2 DEF HasTerminalEvent
  <2>12. Len(told.sent) <= n
    BY <2>8, <2>9
  <2>13. Agrees(told, new.events)
    BY <1>1, <1>5, <1>8, <2>10, <2>11, <2>12 DEF Agrees
  <2> QED BY <1>5, <2>13 DEF told
<1> QED BY <1>5, <1>7, <1>8 DEF told
=============================================================================
