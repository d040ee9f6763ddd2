------------------------------ MODULE LlmStream ------------------------------
(***************************************************************************)
(* One streamed model call through the scheduler (adapters/llm/             *)
(* llm-scheduler.ts, stream()): a pump, which is the task the scheduler     *)
(* runs, moves the provider's chunks into a buffer of BufferLimit, and the  *)
(* generator, which the caller advances, takes them out.  The two wait for  *)
(* each other through lists of resolvers (waiters, spaceWaiters), and a     *)
(* wake-up is a microtask that runs later than the code that caused it.     *)
(*                                                                         *)
(* The scheduler is reduced to what it does to one call: the slot is        *)
(* granted, or the queued call is rejected (LlmScheduler, Slots).  Every    *)
(* caller in runs/pipelines/shared/structured-output.ts takes the chunks    *)
(* until the stream ends, so the generator is never abandoned here.         *)
(***************************************************************************)
EXTENDS Naturals, Sequences

CONSTANTS
    BufferLimit,    \* maxBufferedChunks, which is 1
    Longest         \* the most chunks a provider sends: bounds the model

ASSUME BufferAssumption == BufferLimit \in Nat \ {0}
ASSUME LongestAssumption == Longest \in Nat

VARIABLES
    sent,       \* how many chunks the provider has produced: 1, 2, ...
    pump,       \* where the pump is
    chunks,     \* the buffer
    generator,  \* where the generator is
    taken,      \* the chunks the caller was given, in order
    failure,    \* the failure variable is set
    done        \* the done variable

streamVars == <<sent, pump, chunks, generator, taken, failure, done>>

\* "reading" waits for the provider; "full" has a chunk in hand and a resolver
\* in spaceWaiters, "roused" had that resolver called; "returned" and "threw"
\* are the settled task, "caught" is past .catch and "over" past .finally.
PumpPlaces == {"unborn", "queued", "reading", "full", "roused", "returned",
               "threw", "caught", "over"}

\* "suspended" is at a yield or not begun; "waiting" has a resolver in waiters,
\* "roused" had it called.
GeneratorPlaces == {"suspended", "waiting", "roused", "ended", "threw"}

StreamInit ==
    /\ sent = 0
    /\ pump = "unborn"
    /\ chunks = <<>>
    /\ generator = "suspended"
    /\ taken = <<>>
    /\ failure = FALSE
    /\ done = FALSE

wake == IF generator = "waiting" THEN "roused" ELSE generator
wakeSpace == IF pump = "full" THEN "roused" ELSE pump

\* Mutant: the pump pushes whatever the buffer holds.
Offer_unbounded(n) ==
    /\ chunks' = Append(chunks, n)
    /\ generator' = wake
    /\ pump' = "reading"

\* The pump with the chunk n in hand: it pushes it, or waits for space.
Offer(n) ==
    IF Len(chunks) >= BufferLimit
    THEN /\ pump' = "full"
         /\ UNCHANGED <<chunks, generator>>
    ELSE /\ chunks' = Append(chunks, n)
         /\ generator' = wake
         /\ pump' = "reading"

(***************************************************************************)
(* The pump.                                                               *)
(***************************************************************************)
SlotGranted ==
    /\ pump = "queued"
    /\ pump' = "reading"
    /\ UNCHANGED <<sent, chunks, generator, taken, failure, done>>

CallCancelled ==
    /\ pump = "queued"
    /\ pump' = "threw"
    /\ UNCHANGED <<sent, chunks, generator, taken, failure, done>>

ProviderSends ==
    /\ pump = "reading" /\ sent < Longest
    /\ sent' = sent + 1
    /\ Offer(sent + 1)
    /\ UNCHANGED <<taken, failure, done>>

ProviderStops ==
    /\ pump = "reading"
    /\ pump' \in {"returned", "threw"}
    /\ UNCHANGED <<sent, chunks, generator, taken, failure, done>>

\* Mutant: a roused pump reads on and forgets the chunk in its hand.
SpaceFound_drops ==
    /\ pump = "roused"
    /\ pump' = "reading"
    /\ UNCHANGED <<sent, chunks, generator, taken, failure, done>>

SpaceFound ==
    /\ pump = "roused"
    /\ Offer(sent)
    /\ UNCHANGED <<sent, taken, failure, done>>

TaskCaught ==
    /\ pump \in {"returned", "threw"}
    /\ pump' = "caught"
    /\ failure' = (pump = "threw")
    /\ UNCHANGED <<sent, chunks, generator, taken, done>>

TaskFinished ==
    /\ pump = "caught"
    /\ pump' = "over"
    /\ done' = TRUE
    /\ generator' = wake
    /\ UNCHANGED <<sent, chunks, taken, failure>>

(***************************************************************************)
(* The generator: it begins with the caller's first request, which submits  *)
(* the pump, then runs its loop until it yields, waits or is over.          *)
(***************************************************************************)
Begin ==
    /\ pump = "unborn"
    /\ pump' = "queued"
    /\ generator' = "waiting"
    /\ UNCHANGED <<sent, chunks, taken, failure, done>>

GeneratorRuns == pump /= "unborn" /\ generator \in {"suspended", "roused"}

\* Mutant: a taken chunk rouses nobody.
TakeChunk_silent ==
    /\ GeneratorRuns /\ chunks /= <<>>
    /\ chunks' = Tail(chunks)
    /\ taken' = Append(taken, Head(chunks))
    /\ generator' = "suspended"
    /\ UNCHANGED <<sent, pump, failure, done>>

TakeChunk ==
    /\ GeneratorRuns /\ chunks /= <<>>
    /\ chunks' = Tail(chunks)
    /\ taken' = Append(taken, Head(chunks))
    /\ pump' = wakeSpace
    /\ generator' = "suspended"
    /\ UNCHANGED <<sent, failure, done>>

AwaitChunk ==
    /\ GeneratorRuns /\ chunks = <<>> /\ ~done
    /\ generator' = "waiting"
    /\ UNCHANGED <<sent, pump, chunks, taken, failure, done>>

\* Mutant: the loop ends with the task, whatever is buffered.
Finish_with_task ==
    /\ GeneratorRuns /\ done
    /\ generator' = IF failure THEN "threw" ELSE "ended"
    /\ UNCHANGED <<sent, pump, chunks, taken, failure, done>>

Finish ==
    /\ GeneratorRuns /\ chunks = <<>> /\ done
    /\ generator' = IF failure THEN "threw" ELSE "ended"
    /\ UNCHANGED <<sent, pump, chunks, taken, failure, done>>

Pump == SlotGranted \/ CallCancelled \/ ProviderSends \/ ProviderStops
          \/ SpaceFound \/ TaskCaught \/ TaskFinished
Generator == Begin \/ TakeChunk \/ AwaitChunk \/ Finish

StreamNext == Pump \/ Generator
StreamSpec == StreamInit /\ [][StreamNext]_streamVars

\* The scheduler grants or rejects (EveryCallSettles of LlmScheduler), the
\* client's idle time-out answers for a silent provider, Longest bounds what it
\* sends, and the caller asks for the next chunk.
FairStreamSpec == StreamSpec /\ WF_streamVars(Pump) /\ WF_streamVars(Generator)

(***************************************************************************)
(* Properties.                                                             *)
(***************************************************************************)
\* The chunk the pump holds while it waits for space.
inHand == IF pump \in {"full", "roused"} THEN <<sent>> ELSE <<>>

StreamTypeOK ==
    /\ sent \in 0..Longest
    /\ pump \in PumpPlaces
    /\ chunks \in Seq(Nat) /\ Len(chunks) <= BufferLimit
    /\ generator \in GeneratorPlaces
    /\ taken \in Seq(Nat)
    /\ failure \in BOOLEAN /\ done \in BOOLEAN

\* Chunks reach the caller once each and in order, however the wake-ups of the
\* two sides interleave: what was taken, what is buffered and what the pump
\* holds are together what the provider sent.
EveryChunkOnce == taken \o chunks \o inHand = [i \in 1..sent |-> i]

\* The slot is not given back while the provider's text piles up: when the task
\* has settled, all but BufferLimit chunks have been taken.
SlotKeptForReader ==
    pump \in {"returned", "threw", "caught", "over"} =>
        sent <= Len(taken) + BufferLimit

\* The caller sees the end, or the failure, after the last chunk and not before,
\* and sees a failure exactly when the task failed.
EndsAfterLast ==
    generator \in {"ended", "threw"} =>
        /\ pump = "over" /\ Len(taken) = sent
        /\ generator = "threw" <=> failure

\* Pump and generator never wait for each other: a stream that began reaches its
\* caller's end.
StreamEnds == pump /= "unborn" ~> generator \in {"ended", "threw"}
=============================================================================
