---------------------------- MODULE LlmScheduler ----------------------------
(***************************************************************************)
(* The in-memory scheduler through which every call of a language model     *)
(* passes (adapters/llm/llm-scheduler.ts, createInMemoryLlmScheduler).      *)
(*                                                                         *)
(* A call is queued by run(), started by drain() once none of five limits   *)
(* blocks it, settled by its task, and gives its slot back in a later       *)
(* microtask, which drains again.  cancelRun() rejects the queued calls of  *)
(* a run and leaves the running ones alone.                                 *)
(*                                                                         *)
(* drain() is a loop that never awaits: each of its iterations is a step    *)
(* here, index is its loop variable, and no other step is enabled until it  *)
(* is back at 0.  The waiting time and the reason reported with a queue     *)
(* position are left out.                                                   *)
(***************************************************************************)
EXTENDS Integers, FiniteSets, SequencesExt

CONSTANTS
    Calls,      \* the calls made during the life of the scheduler
    Keys,       \* identifiers of providers, projects, users and runs
    Key,        \* Key[c][d]: under which key dimension d counts call c
    Limit       \* Limit[d]: LlmSchedulerLimits

Dims == {"global", "provider", "project", "user", "run"}

ASSUME CallsAssumption == IsFiniteSet(Calls)

\* The global limit counts all calls together.
ASSUME KeyAssumption ==
    /\ Key \in [Calls -> [Dims -> Keys]]
    /\ \A c, d \in Calls : Key[c]["global"] = Key[d]["global"]

\* positiveInteger() replaces any limit that is not a positive integer.
ASSUME LimitAssumption == Limit \in [Dims -> Nat \ {0}]

VARIABLES
    queue,      \* the items that wait, oldest first
    cancelled,  \* the items whose cancelled flag is set
    running,    \* running[d][k]: the counter of dimension d for key k
    index,      \* drain's loop variable; 0 when drain is not running
    promise,    \* what the caller of run() knows of each call
    holds,      \* the calls whose task was started and whose slot is not back
    status      \* the last status each caller was told, with its position

vars == <<queue, cancelled, running, index, promise, holds, status>>

Promises == {"none", "pending", "resolved", "failed", "cancelled"}
Status(s, n) == [told |-> s, position |-> n]
Runs == {Key[c]["run"] : c \in Calls}

(***************************************************************************)
(* The helpers of the scheduler.                                           *)
(***************************************************************************)
\* Mutant: one call too many.
blocked_off_by_one(c) == \E d \in Dims : running[d][Key[c][d]] > Limit[d]

\* Mutant: the limit of one user is not asked.
blocked_forgets_users(c) ==
    \E d \in Dims \ {"user"} : running[d][Key[c][d]] >= Limit[d]

blocked(c) == \E d \in Dims : running[d][Key[c][d]] >= Limit[d]

reserve(c) ==
    [d \in Dims |-> [running[d] EXCEPT ![Key[c][d]] = @ + 1]]

\* The maps forget a key whose count falls to 0; the global counter is a number.
decrement(d, n) == IF d = "global" \/ n > 1 THEN n - 1 ELSE 0

release(c) ==
    [d \in Dims |-> [running[d] EXCEPT ![Key[c][d]] = decrement(d, @)]]

Init ==
    /\ queue = <<>>
    /\ cancelled = {}
    /\ running = [d \in Dims |-> [k \in Keys |-> 0]]
    /\ index = 0
    /\ promise = [c \in Calls |-> "none"]
    /\ holds = {}
    /\ status = [c \in Calls |-> Status("none", 0)]

(***************************************************************************)
(* The operations of the scheduler and the events of its tasks.  Each runs  *)
(* to its end, with the drain it calls, before the next one.                *)
(***************************************************************************)
Submit(c) ==
    /\ index = 0
    /\ promise[c] = "none"
    /\ promise' = [promise EXCEPT ![c] = "pending"]
    /\ queue' = Append(queue, c)
    /\ status' = [status EXCEPT ![c] = Status("queued", Len(queue) + 1)]
    /\ index' = 1
    /\ UNCHANGED <<cancelled, running, holds>>

\* The provider's stream ends, or fails: the idle time-out of the client makes
\* one of them happen.
TaskSettles(c) ==
    /\ index = 0
    /\ c \in holds /\ promise[c] = "pending"
    /\ \/ /\ promise' = [promise EXCEPT ![c] = "resolved"]
          /\ status' = [status EXCEPT ![c] = Status("completed", 0)]
       \/ /\ promise' = [promise EXCEPT ![c] = "failed"]
          /\ UNCHANGED status
    /\ UNCHANGED <<queue, cancelled, running, index, holds>>

\* Mutant: a returned slot wakes nobody.
Release_without_drain(c) ==
    /\ index = 0
    /\ c \in holds /\ promise[c] /= "pending"
    /\ running' = release(c)
    /\ holds' = holds \ {c}
    /\ UNCHANGED <<queue, cancelled, promise, status, index>>

Release(c) ==
    /\ index = 0
    /\ c \in holds /\ promise[c] /= "pending"
    /\ running' = release(c)
    /\ holds' = holds \ {c}
    /\ index' = 1
    /\ UNCHANGED <<queue, cancelled, promise, status>>

\* Mutant: the queue is not drained after the marking.
CancelRun_marks_only(r) ==
    /\ index = 0
    /\ cancelled' = cancelled \cup {c \in ToSet(queue) : Key[c]["run"] = r}
    /\ UNCHANGED <<queue, running, promise, holds, status, index>>

CancelRun(r) ==
    /\ index = 0
    /\ cancelled' = cancelled \cup {c \in ToSet(queue) : Key[c]["run"] = r}
    /\ index' = 1
    /\ UNCHANGED <<queue, running, promise, holds, status>>

(***************************************************************************)
(* drain(): the iterations of its loop, then publishQueueStatuses().       *)
(***************************************************************************)
Item == queue[index]

DrainCancelled ==
    /\ index \in DOMAIN queue
    /\ Item \in cancelled
    /\ queue' = RemoveAt(queue, index)
    /\ status' = [status EXCEPT ![Item] = Status("cancelled", 0)]
    /\ promise' = [promise EXCEPT ![Item] = "cancelled"]
    /\ UNCHANGED <<cancelled, running, index, holds>>

\* Mutant: a call that could start may be passed over.
DrainBlocked_passes_over ==
    /\ index \in DOMAIN queue
    /\ Item \notin cancelled
    /\ index' = index + 1
    /\ UNCHANGED <<queue, cancelled, running, promise, holds, status>>

DrainBlocked ==
    /\ index \in DOMAIN queue
    /\ Item \notin cancelled /\ blocked(Item)
    /\ index' = index + 1
    /\ UNCHANGED <<queue, cancelled, running, promise, holds, status>>

DrainStarts ==
    /\ index \in DOMAIN queue
    /\ Item \notin cancelled /\ ~blocked(Item)
    /\ queue' = RemoveAt(queue, index)
    /\ running' = reserve(Item)
    /\ holds' = holds \cup {Item}
    /\ status' = [status EXCEPT ![Item] = Status("running", 0)]
    /\ UNCHANGED <<cancelled, index, promise>>

\* Mutant: the callers are not told their new positions.
DrainPublishes_nothing ==
    /\ index > Len(queue)
    /\ index' = 0
    /\ UNCHANGED <<queue, cancelled, running, promise, holds, status>>

DrainPublishes ==
    /\ index > Len(queue)
    /\ index' = 0
    /\ status' = [c \in Calls |->
                    IF c \in ToSet(queue)
                    THEN Status("queued", CHOOSE i \in DOMAIN queue : queue[i] = c)
                    ELSE status[c]]
    /\ UNCHANGED <<queue, cancelled, running, promise, holds>>

Drain == DrainCancelled \/ DrainBlocked \/ DrainStarts \/ DrainPublishes

Next ==
    \/ \E c \in Calls : Submit(c) \/ TaskSettles(c) \/ Release(c)
    \/ \E r \in Runs : CancelRun(r)
    \/ Drain

(***************************************************************************)
(* A drain is a synchronous loop, so it ends, and a task or a microtask is  *)
(* only ever held up by one: the event loop serves each in the end, however *)
(* many cancels come between.  That is strong fairness, since index is 0    *)
(* again and again.  The idle time-out of the client settles the calls the  *)
(* provider leaves unanswered.                                              *)
(***************************************************************************)
Fairness ==
    /\ WF_vars(Drain)
    /\ \A c \in Calls : SF_vars(TaskSettles(c)) /\ SF_vars(Release(c))

Spec == Init /\ [][Next]_vars
FairSpec == Spec /\ Fairness

(***************************************************************************)
(* Properties.                                                             *)
(***************************************************************************)
TypeOK ==
    /\ queue \in Seq(Calls)
    /\ cancelled \subseteq Calls
    /\ running \in [Dims -> [Keys -> Nat]]
    /\ index \in Nat
    /\ promise \in [Calls -> Promises]
    /\ holds \subseteq Calls
    /\ status \in [Calls -> [told : {"none", "queued", "running", "completed",
                                     "cancelled"}, position : Nat]]

Holders(d, k) == {c \in holds : Key[c][d] = k}

\* However calls start, fail and are cancelled, no more tasks run at once than
\* each limit allows: the counters that start() and release() keep by key are
\* the number of calls that really hold a slot.
LimitsRespected ==
    \A d \in Dims, k \in Keys :
        /\ running[d][k] = Cardinality(Holders(d, k))
        /\ running[d][k] <= Limit[d]

\* No call is left in the queue that could start: whenever drain is over, each
\* of the waiting calls is over one of its limits.
NoIdleCapacity ==
    index = 0 => \A i \in DOMAIN queue : blocked(queue[i])

\* The position a waiting call was last told is where it stands, after every
\* start, cancel and return of others.
PositionsTrue ==
    index = 0 => \A i \in DOMAIN queue : status[queue[i]] = Status("queued", i)

\* Cancelled queued work never calls the provider, and its caller is told.
CancelledRejected ==
    /\ cancelled \cap holds = {}
    /\ index = 0 => \A c \in cancelled : promise[c] = "cancelled"

\* A call never starts ahead of an earlier one with the same provider, project,
\* user and run.
StartsInTurn ==
    \A i \in DOMAIN queue :
        queue[i] \in holds' => \A j \in 1..(i-1) : Key[queue[j]] /= Key[queue[i]]
InTurn == [][StartsInTurn]_vars

\* The counters and the queue implement the pool of slots: a slot is given only
\* to a call that waits and only within its limits, and given back once.
place == [c \in Calls |-> IF promise[c] = "none" THEN "outside"
                          ELSE IF c \in holds THEN "holding"
                          ELSE IF promise[c] = "pending" THEN "waiting"
                          ELSE "gone"]
Slots == INSTANCE CallSlots
ImplementsSlots == Slots!Spec

\* Every call that was queued is answered or rejected in the end.
EveryCallSettles ==
    \A c \in Calls : promise[c] = "pending" ~> promise[c] /= "pending"
=============================================================================
