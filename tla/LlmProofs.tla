------------------------------ MODULE LlmProofs ------------------------------
(***************************************************************************)
(* Theorems about the model-call scheduler: first its queue (LlmScheduler), *)
(* for every set of calls, every assignment of keys and all positive       *)
(* limits; at the end the stream of one call (LlmStream).                  *)
(*                                                                         *)
(* The invariant that carries them (IInv) adds to the types what the queue, *)
(* the promises and the held slots say of each other, and what drain has    *)
(* established about the part of the queue before its loop variable.        *)
(***************************************************************************)
EXTENDS LlmScheduler, LlmStream, TLAPS, FiniteSetTheorems, SequenceTheorems

QueueOK ==
    /\ \A i, j \in DOMAIN queue : queue[i] = queue[j] => i = j
    /\ \A i \in DOMAIN queue : promise[queue[i]] = "pending" /\ queue[i] \notin holds
    /\ \A c \in Calls : promise[c] = "pending" =>
          c \in holds \/ \E i \in DOMAIN queue : queue[i] = c
    /\ \A c \in holds : promise[c] \in {"pending", "resolved", "failed"}

\* Before the loop variable, and everywhere when the loop is over, the queue
\* holds calls that are blocked and not cancelled.
CursorOK ==
    /\ index <= Len(queue) + 1
    /\ \A i \in DOMAIN queue :
          i < index \/ index = 0 => blocked(queue[i]) /\ queue[i] \notin cancelled

CancelOK == \A c \in cancelled : c \notin holds /\ promise[c] \in {"pending", "cancelled"}

IInv == TypeOK /\ QueueOK /\ CursorOK /\ CancelOK /\ LimitsRespected /\ PositionsTrue

(***************************************************************************)
(* Lemmas about the data.                                                  *)
(***************************************************************************)
\* Removing an element shifts the ones behind it by one.
LEMMA RemoveAtFacts ==
    ASSUME NEW S, NEW s \in Seq(S), NEW i \in DOMAIN s
    PROVE  /\ RemoveAt(s, i) \in Seq(S)
           /\ Len(RemoveAt(s, i)) = Len(s) - 1
           /\ \A j \in 1..(Len(s) - 1) :
                RemoveAt(s, i)[j] = IF j < i THEN s[j] ELSE s[j + 1]
<1> DEFINE A == SubSeq(s, 1, i - 1)  B == SubSeq(s, i + 1, Len(s))
<1>1. i \in 1..Len(s) /\ Len(s) \in Nat
  OBVIOUS
<1>2. A \in Seq(S) /\ Len(A) = i - 1 /\ \A j \in 1..(i - 1) : A[j] = s[j]
  BY <1>1
<1>3. B \in Seq(S) /\ Len(B) = Len(s) - i /\ \A j \in 1..(Len(s) - i) : B[j] = s[i + j]
  BY <1>1
<1>4. RemoveAt(s, i) = A \o B
  BY DEF RemoveAt
<1> HIDE DEF A, B
<1>5. /\ A \o B \in Seq(S) /\ Len(A \o B) = Len(s) - 1
      /\ \A j \in 1..(Len(s) - 1) :
            (A \o B)[j] = IF j <= Len(A) THEN A[j] ELSE B[j - Len(A)]
  <2>1. /\ A \o B \in Seq(S) /\ Len(A \o B) = Len(A) + Len(B)
        /\ \A j \in 1..(Len(A) + Len(B)) :
              (A \o B)[j] = IF j <= Len(A) THEN A[j] ELSE B[j - Len(A)]
    BY <1>2, <1>3, ConcatProperties, Zenon
  <2>2. Len(A) + Len(B) = Len(s) - 1
    BY <1>1, <1>2, <1>3
  <2> QED
    BY <2>1, <2>2, Zenon
<1>6. ASSUME NEW j \in 1..(Len(s) - 1)
      PROVE  (A \o B)[j] = IF j < i THEN s[j] ELSE s[j + 1]
  <2>1. CASE j < i
    BY <2>1, <1>1, <1>2, <1>5
  <2>2. CASE ~(j < i)
    <3>1. j - (i - 1) \in 1..(Len(s) - i) /\ i + (j - (i - 1)) = j + 1
      BY <2>2, <1>1
    <3>2. (A \o B)[j] = B[j - (i - 1)]
      <4>1. Len(A) = i - 1 /\ ~(j <= i - 1)
        BY <2>2, <1>1, <1>2
      <4> QED BY <4>1, <1>5
    <3>3. B[j - (i - 1)] = s[i + (j - (i - 1))]
      BY <3>1, <1>3
    <3> QED
      BY <3>1, <3>2, <3>3, <2>2
  <2> QED
    BY <2>1, <2>2
<1> QED
  BY <1>4, <1>5, <1>6

\* The calls that wait are the elements of the queue without the removed one.
LEMMA RemovedElement ==
    ASSUME NEW S, NEW s \in Seq(S), NEW i \in DOMAIN s,
           \A m, n \in DOMAIN s : s[m] = s[n] => m = n
    PROVE  /\ \A j \in DOMAIN RemoveAt(s, i) : \E m \in DOMAIN s :
                 m /= i /\ RemoveAt(s, i)[j] = s[m] /\ (j < i => m = j)
           /\ \A m \in DOMAIN s : m /= i =>
                 \E j \in DOMAIN RemoveAt(s, i) : RemoveAt(s, i)[j] = s[m]
           /\ \A m, n \in DOMAIN RemoveAt(s, i) :
                 RemoveAt(s, i)[m] = RemoveAt(s, i)[n] => m = n
<1> DEFINE r == RemoveAt(s, i)
<1>0. /\ r \in Seq(S) /\ Len(r) = Len(s) - 1
      /\ \A j \in 1..(Len(s) - 1) : r[j] = IF j < i THEN s[j] ELSE s[j + 1]
  BY RemoveAtFacts, Zenon
<1>1. /\ r \in Seq(S) /\ Len(r) = Len(s) - 1 /\ i \in 1..Len(s)
      /\ \A j \in 1..(Len(s) - 1) : r[j] = IF j < i THEN s[j] ELSE s[j + 1]
  <2>1. i \in 1..Len(s)
    OBVIOUS
  <2> QED BY <1>0, <2>1
<1> HIDE DEF r
<1>2. DOMAIN r = 1..(Len(s) - 1) /\ DOMAIN s = 1..Len(s)
  BY <1>1
<1>3. ASSUME NEW j \in DOMAIN r
      PROVE  \E m \in DOMAIN s : m /= i /\ r[j] = s[m] /\ (j < i => m = j)
  <2>1. CASE j < i
    BY <2>1, <1>1, <1>2
  <2>2. CASE ~(j < i)
    <3>1. j + 1 \in DOMAIN s /\ j + 1 /= i /\ r[j] = s[j + 1]
      BY <2>2, <1>1, <1>2
    <3> QED
      BY <3>1, <2>2
  <2> QED
    BY <2>1, <2>2
<1>4. ASSUME NEW m \in DOMAIN s, m /= i
      PROVE  \E j \in DOMAIN r : r[j] = s[m]
  <2>1. CASE m < i
    BY <2>1, <1>1, <1>2
  <2>2. CASE m > i
    <3>1. m - 1 \in DOMAIN r /\ r[m - 1] = s[m]
      BY <2>2, <1>1, <1>2
    <3> QED
      BY <3>1
  <2> QED
    BY <2>1, <2>2, <1>4, <1>1, <1>2
<1>5. ASSUME NEW m \in DOMAIN r, NEW n \in DOMAIN r, r[m] = r[n]
      PROVE  m = n
  <2>1. m \in Nat /\ n \in Nat /\ m < Len(s) /\ n < Len(s) /\ m > 0 /\ n > 0
    BY <1>2, <1>1
  <2>2. r[m] = (IF m < i THEN s[m] ELSE s[m + 1])
        /\ r[n] = (IF n < i THEN s[n] ELSE s[n + 1])
    BY <1>1, <1>2
  <2>3. (IF m < i THEN m ELSE m + 1) = (IF n < i THEN n ELSE n + 1)
    BY <2>1, <2>2, <1>5, <1>2, <1>1
  <2> QED
    BY <2>1, <2>3, <1>1
<1> QED
  BY <1>3, <1>4, <1>5 DEF r

\* One more holder, or one fewer, moves the count of its key by one.
Keyed(H, d, k) == {x \in H : Key[x][d] = k}

LEMMA HolderAdded ==
    ASSUME NEW H, H \subseteq Calls, NEW c \in Calls, c \notin H, NEW d, NEW k
    PROVE  /\ Cardinality(Keyed(H \cup {c}, d, k))
                = Cardinality(Keyed(H, d, k)) + (IF Key[c][d] = k THEN 1 ELSE 0)
           /\ Cardinality(Keyed(H, d, k)) \in Nat
<1>1. IsFiniteSet(Keyed(H, d, k))
  BY CallsAssumption, FS_Subset DEF Keyed
<1>2. Cardinality(Keyed(H, d, k)) \in Nat
  BY <1>1, FS_CardinalityType
<1>3. CASE Key[c][d] = k
  <2>1. Keyed(H \cup {c}, d, k) = Keyed(H, d, k) \cup {c} /\ c \notin Keyed(H, d, k)
    BY <1>3 DEF Keyed
  <2>2. Cardinality(Keyed(H, d, k) \cup {c}) = Cardinality(Keyed(H, d, k)) + 1
    BY <2>1, <1>1, FS_AddElement
  <2> QED
    BY <2>1, <2>2, <1>2, <1>3
<1>4. CASE Key[c][d] /= k
  <2>1. Keyed(H \cup {c}, d, k) = Keyed(H, d, k)
    BY <1>4 DEF Keyed
  <2> QED
    BY <2>1, <1>2, <1>4
<1> QED
  BY <1>3, <1>4

LEMMA HolderRemoved ==
    ASSUME NEW H, H \subseteq Calls, NEW c \in H, NEW d, NEW k
    PROVE  /\ Cardinality(Keyed(H, d, k))
                = Cardinality(Keyed(H \ {c}, d, k)) + (IF Key[c][d] = k THEN 1 ELSE 0)
           /\ Cardinality(Keyed(H \ {c}, d, k)) \in Nat
<1> DEFINE R == H \ {c}
<1>1. R \cup {c} = H /\ R \subseteq Calls /\ c \in Calls /\ c \notin R
  OBVIOUS
<1> HIDE DEF R
<1>2. /\ Cardinality(Keyed(R \cup {c}, d, k))
            = Cardinality(Keyed(R, d, k)) + (IF Key[c][d] = k THEN 1 ELSE 0)
      /\ Cardinality(Keyed(R, d, k)) \in Nat
  BY <1>1, HolderAdded
<1> QED
  BY <1>1, <1>2 DEF R

(***************************************************************************)
(* The invariant.                                                          *)
(***************************************************************************)
LEMMA InitInv == Init => IInv
<1> SUFFICES ASSUME Init PROVE IInv
  OBVIOUS
<1> USE DEF Init
<1>1. TypeOK
  BY DEF TypeOK, Promises, Status
<1>2. QueueOK /\ CursorOK /\ CancelOK /\ PositionsTrue
  BY DEF QueueOK, CursorOK, CancelOK, PositionsTrue
<1>3. LimitsRespected
  <2> SUFFICES ASSUME NEW d \in Dims, NEW k \in Keys
               PROVE  running[d][k] = Cardinality(Holders(d, k))
                      /\ running[d][k] <= Limit[d]
    BY DEF LimitsRespected
  <2>1. Holders(d, k) = {}
    BY DEF Holders
  <2>2. Cardinality(Holders(d, k)) = 0
    BY <2>1, FS_EmptySet
  <2> QED
    BY <2>2, LimitAssumption
<1> QED
  BY <1>1, <1>2, <1>3 DEF IInv

\* The counters of a call that is granted a slot stay exact and within the limits.
LEMMA ReserveStep ==
    ASSUME TypeOK, LimitsRespected, NEW c \in Calls, c \notin holds, ~blocked(c),
           running' = reserve(c), holds' = holds \cup {c}
    PROVE  /\ LimitsRespected'
           /\ running' \in [Dims -> [Keys -> Nat]]
           /\ \A x \in Calls : blocked(x) => blocked(x)'
<1> USE KeyAssumption, LimitAssumption
<1>1. ASSUME NEW d \in Dims, NEW k \in Keys
      PROVE  running'[d][k] = running[d][k] + (IF Key[c][d] = k THEN 1 ELSE 0)
  BY DEF TypeOK, reserve
<1>2. running' \in [Dims -> [Keys -> Nat]]
  BY DEF TypeOK, reserve
<1>3. ASSUME NEW d \in Dims, NEW k \in Keys
      PROVE  running'[d][k] = Cardinality(Holders(d, k))' /\ running'[d][k] <= Limit[d]
  <2>1. Cardinality(Holders(d, k))'
          = Cardinality(Holders(d, k)) + (IF Key[c][d] = k THEN 1 ELSE 0)
    <3>1. Holders(d, k) = Keyed(holds, d, k)
          /\ Holders(d, k)' = Keyed(holds \cup {c}, d, k)
      BY DEF Holders, Keyed
    <3>2. holds \subseteq Calls
      BY DEF TypeOK
    <3>3. Cardinality(Keyed(holds \cup {c}, d, k))
            = Cardinality(Keyed(holds, d, k)) + (IF Key[c][d] = k THEN 1 ELSE 0)
      BY <3>2, HolderAdded
    <3> QED
      BY <3>1, <3>3
  <2>2. Key[c][d] = k => running[d][k] < Limit[d]
    BY DEF blocked, TypeOK
  <2> QED
    BY <2>1, <2>2, <1>1 DEF LimitsRespected, TypeOK
<1>4. ASSUME NEW x \in Calls, blocked(x)
      PROVE  blocked(x)'
  <2> PICK d \in Dims : running[d][Key[x][d]] >= Limit[d]
    BY <1>4 DEF blocked
  <2>1. Key[x][d] \in Keys /\ running[d][Key[x][d]] \in Nat
    BY DEF TypeOK
  <2>2. running'[d][Key[x][d]] = running[d][Key[x][d]]
                                  + (IF Key[c][d] = Key[x][d] THEN 1 ELSE 0)
    BY <1>1, <2>1
  <2>3. running'[d][Key[x][d]] >= Limit[d]
    BY <2>1, <2>2
  <2> QED
    BY <2>3 DEF blocked
<1> QED
  BY <1>2, <1>3, <1>4 DEF LimitsRespected

\* The counters of a call that gives its slot back stay exact.
LEMMA ReleaseStep ==
    ASSUME TypeOK, LimitsRespected, NEW c \in holds,
           running' = release(c), holds' = holds \ {c}
    PROVE  LimitsRespected' /\ running' \in [Dims -> [Keys -> Nat]]
<1> USE KeyAssumption, LimitAssumption
<1>1. c \in Calls
  BY DEF TypeOK
<1>2. ASSUME NEW d \in Dims, NEW k \in Keys
      PROVE  /\ running[d][k] = Cardinality(Holders(d, k))'
                                  + (IF Key[c][d] = k THEN 1 ELSE 0)
             /\ Cardinality(Holders(d, k))' \in Nat
  <2>1. /\ Cardinality(Holders(d, k)) = Cardinality(Holders(d, k))'
                                  + (IF Key[c][d] = k THEN 1 ELSE 0)
        /\ Cardinality(Holders(d, k))' \in Nat
    <3>1. Holders(d, k) = Keyed(holds, d, k)
          /\ Holders(d, k)' = Keyed(holds \ {c}, d, k)
      BY DEF Holders, Keyed
    <3>2. holds \subseteq Calls
      BY DEF TypeOK
    <3>3. /\ Cardinality(Keyed(holds, d, k))
                = Cardinality(Keyed(holds \ {c}, d, k)) + (IF Key[c][d] = k THEN 1 ELSE 0)
          /\ Cardinality(Keyed(holds \ {c}, d, k)) \in Nat
      BY <3>2, HolderRemoved
    <3> QED
      BY <3>1, <3>3
  <2> QED
    BY <2>1 DEF LimitsRespected
<1>3. ASSUME NEW d \in Dims, NEW k \in Keys
      PROVE  running'[d][k] = IF Key[c][d] = k THEN decrement(d, running[d][k])
                                               ELSE running[d][k]
  BY <1>1 DEF TypeOK, release
<1>4. ASSUME NEW d \in Dims, NEW k \in Keys
      PROVE  running'[d][k] = Cardinality(Holders(d, k))' /\ running'[d][k] <= Limit[d]
             /\ running'[d][k] \in Nat
  <2> DEFINE n == Cardinality(Holders(d, k)')
  <2>1. running[d][k] \in Nat /\ Limit[d] \in Nat /\ running[d][k] <= Limit[d]
    BY DEF LimitsRespected, TypeOK
  <2>2. n \in Nat /\ running[d][k] = n + (IF Key[c][d] = k THEN 1 ELSE 0)
    BY <1>2
  <2> HIDE DEF n
  <2>3. running'[d][k] = n
    <3>1. CASE Key[c][d] = k
      <4>1. decrement(d, running[d][k]) = n
        BY <3>1, <2>2 DEF decrement
      <4> QED
        BY <3>1, <4>1, <1>3
    <3>2. CASE Key[c][d] /= k
      BY <3>2, <2>1, <2>2, <1>3
    <3> QED
      BY <3>1, <3>2
  <2>4. n <= Limit[d]
    BY <2>1, <2>2
  <2> QED
    BY <2>2, <2>3, <2>4 DEF n
<1>5. running' = [d \in Dims |-> [k \in Keys |-> running'[d][k]]]
  BY <1>1 DEF TypeOK, release
<1> QED
  BY <1>4, <1>5 DEF LimitsRespected

\* What a call's promise and slot have to do with the queue after one of drain's
\* removals: the prefix the loop has passed is the same, the rest moves up.
LEMMA RemovalStep ==
    ASSUME TypeOK, QueueOK, CursorOK, index \in DOMAIN queue,
           queue' = RemoveAt(queue, index)
    PROVE  /\ queue' \in Seq(Calls) /\ index <= Len(queue') + 1
           /\ \A i, j \in DOMAIN queue' : queue'[i] = queue'[j] => i = j
           /\ \A i \in DOMAIN queue' : \E j \in DOMAIN queue :
                 /\ queue'[i] = queue[j] /\ queue[j] /= Item
                 /\ i < index => j = i
           /\ \A j \in DOMAIN queue :
                 queue[j] = Item \/ \E i \in DOMAIN queue' : queue'[i] = queue[j]
           /\ index /= 0
<1>1. /\ queue \in Seq(Calls) /\ index \in DOMAIN queue
      /\ \A m, n \in DOMAIN queue : queue[m] = queue[n] => m = n
  BY DEF TypeOK, QueueOK
<1>2. /\ queue' \in Seq(Calls) /\ Len(queue') = Len(queue) - 1
  BY <1>1, RemoveAtFacts
<1>3. /\ \A j \in DOMAIN queue' : \E m \in DOMAIN queue :
             m /= index /\ queue'[j] = queue[m] /\ (j < index => m = j)
      /\ \A m \in DOMAIN queue : m /= index =>
             \E j \in DOMAIN queue' : queue'[j] = queue[m]
      /\ \A m, n \in DOMAIN queue' : queue'[m] = queue'[n] => m = n
  BY <1>1, RemovedElement
<1>4. index \in 1..Len(queue)
  BY <1>1
<1>5. \A m \in DOMAIN queue : queue[m] = Item <=> m = index
  BY <1>1 DEF Item
<1>6. ASSUME NEW i \in DOMAIN queue'
      PROVE  \E j \in DOMAIN queue :
                 /\ queue'[i] = queue[j] /\ queue[j] /= Item
                 /\ i < index => j = i
  BY <1>3, <1>5
<1> QED
  BY <1>2, <1>3, <1>4, <1>5, <1>6

LEMMA SubmitInv == ASSUME IInv, NEW c \in Calls, Submit(c) PROVE IInv'
<1> USE DEF IInv, Submit
<1>1. /\ queue' \in Seq(Calls) /\ Len(queue') = Len(queue) + 1
      /\ \A i \in DOMAIN queue : i \in DOMAIN queue' /\ queue'[i] = queue[i]
      /\ queue'[Len(queue) + 1] = c
      /\ \A i \in DOMAIN queue' : i \in DOMAIN queue \/ i = Len(queue) + 1
  BY DEF TypeOK
<1>2. TypeOK'
  <2>1. Status("queued", Len(queue) + 1) \in
          [told : {"none", "queued", "running", "completed", "cancelled"}, position : Nat]
    BY DEF TypeOK, Status
  <2> QED
    BY <1>1, <2>1 DEF TypeOK, Promises
<1>3. c \notin holds /\ c \notin cancelled /\ \A i \in DOMAIN queue : queue[i] /= c
  BY DEF QueueOK, CancelOK
<1>4. QueueOK'
  <2>1. \A i, j \in DOMAIN queue' : queue'[i] = queue'[j] => i = j
    BY <1>1, <1>3 DEF QueueOK
  <2>2. \A i \in DOMAIN queue' : promise'[queue'[i]] = "pending" /\ queue'[i] \notin holds'
    BY <1>1, <1>3 DEF QueueOK, TypeOK
  <2>3. ASSUME NEW x \in Calls, promise'[x] = "pending"
        PROVE  x \in holds' \/ \E i \in DOMAIN queue' : queue'[i] = x
    <3>1. CASE x = c
      <4>1. Len(queue) + 1 \in DOMAIN queue'
        BY <1>1 DEF TypeOK
      <4> QED
        BY <4>1, <1>1, <3>1
    <3>2. CASE x /= c
      BY <3>2, <2>3, <1>1 DEF QueueOK, TypeOK
    <3> QED
      BY <3>1, <3>2
  <2>4. \A x \in holds' : promise'[x] \in {"pending", "resolved", "failed"}
    BY <1>3 DEF QueueOK, TypeOK
  <2> QED
    BY <2>1, <2>2, <2>3, <2>4 DEF QueueOK
<1>5. CursorOK'
  BY <1>1 DEF CursorOK, TypeOK
<1>6. CancelOK'
  BY <1>3 DEF CancelOK, TypeOK
<1>7. LimitsRespected' /\ PositionsTrue'
  BY DEF LimitsRespected, Holders, PositionsTrue
<1> QED
  BY <1>2, <1>4, <1>5, <1>6, <1>7

LEMMA SettleInv == ASSUME IInv, NEW c \in Calls, TaskSettles(c) PROVE IInv'
<1> USE DEF IInv, TaskSettles
<1>1. TypeOK'
  <2>1. Status("completed", 0) \in
          [told : {"none", "queued", "running", "completed", "cancelled"}, position : Nat]
    BY DEF Status
  <2>2. promise' \in [Calls -> Promises]
    BY DEF TypeOK, Promises
  <2>3. status' \in [Calls ->
          [told : {"none", "queued", "running", "completed", "cancelled"},
           position : Nat]]
    BY <2>1 DEF TypeOK
  <2> QED
    BY <2>2, <2>3 DEF TypeOK
<1>2. QueueOK'
  <2>1. promise'[c] \in {"resolved", "failed"}
        /\ \A x \in Calls : x /= c => promise'[x] = promise[x]
    BY DEF TypeOK
  <2>2. \A i \in DOMAIN queue : queue[i] /= c /\ queue[i] \in Calls
    BY DEF QueueOK, TypeOK
  <2>3. \A i \in DOMAIN queue : promise'[queue[i]] = "pending" /\ queue[i] \notin holds
    BY <2>1, <2>2 DEF QueueOK
  <2>4. \A x \in Calls : promise'[x] = "pending" =>
          x \in holds \/ \E i \in DOMAIN queue : queue[i] = x
    BY <2>1 DEF QueueOK
  <2>5. \A x \in holds : promise'[x] \in {"pending", "resolved", "failed"}
    BY <2>1 DEF QueueOK, TypeOK
  <2> QED
    BY <2>3, <2>4, <2>5 DEF QueueOK
<1>3. CursorOK'
  BY DEF CursorOK, blocked
<1>4. CancelOK'
  BY DEF CancelOK, TypeOK
<1>5. LimitsRespected'
  BY DEF LimitsRespected, Holders
<1>6. PositionsTrue'
  <2> SUFFICES ASSUME NEW i \in DOMAIN queue
               PROVE  status'[queue[i]] = Status("queued", i)
    BY DEF PositionsTrue
  <2>1. queue[i] /= c /\ queue[i] \in Calls
    BY DEF QueueOK, TypeOK
  <2>2. status'[queue[i]] = status[queue[i]]
    BY <2>1 DEF TypeOK
  <2> QED
    BY <2>2 DEF PositionsTrue
<1> QED
  BY <1>1, <1>2, <1>3, <1>4, <1>5, <1>6

LEMMA ReleaseInv == ASSUME IInv, NEW c \in Calls, Release(c) PROVE IInv'
<1> USE DEF IInv, Release
<1>1. LimitsRespected' /\ running' \in [Dims -> [Keys -> Nat]]
  BY ReleaseStep
<1>2. TypeOK'
  BY <1>1 DEF TypeOK
<1>3. QueueOK' /\ CancelOK' /\ PositionsTrue'
  BY DEF QueueOK, CancelOK, PositionsTrue
<1>4. CursorOK'
  BY DEF CursorOK, TypeOK
<1> QED
  BY <1>1, <1>2, <1>3, <1>4

LEMMA CancelRunInv == ASSUME IInv, NEW r, CancelRun(r) PROVE IInv'
<1> USE DEF IInv, CancelRun
<1>1. ToSet(queue) = {queue[i] : i \in DOMAIN queue}
  BY DEF ToSet
<1>2. ToSet(queue) \subseteq Calls
  BY <1>1 DEF TypeOK
<1>3. TypeOK'
  BY <1>2 DEF TypeOK
<1>4. CancelOK'
  BY <1>1 DEF CancelOK, QueueOK
<1>5. QueueOK' /\ PositionsTrue'
  BY DEF QueueOK, PositionsTrue
<1>6. CursorOK'
  BY DEF CursorOK, TypeOK
<1>7. LimitsRespected'
  BY DEF LimitsRespected, Holders
<1> QED
  BY <1>3, <1>4, <1>5, <1>6, <1>7

LEMMA DrainCancelledInv == ASSUME IInv, DrainCancelled PROVE IInv'
<1> USE DEF IInv, DrainCancelled
<1>1. /\ queue' \in Seq(Calls) /\ index <= Len(queue') + 1 /\ index /= 0
      /\ \A i, j \in DOMAIN queue' : queue'[i] = queue'[j] => i = j
      /\ \A i \in DOMAIN queue' : \E j \in DOMAIN queue :
            /\ queue'[i] = queue[j] /\ queue[j] /= Item
            /\ i < index => j = i
      /\ \A j \in DOMAIN queue :
            queue[j] = Item \/ \E i \in DOMAIN queue' : queue'[i] = queue[j]
  BY RemovalStep
<1>2. Item \in Calls /\ promise[Item] = "pending" /\ Item \notin holds
  BY DEF TypeOK, QueueOK, Item
<1>3. promise'[Item] = "cancelled" /\ \A x \in Calls : x /= Item => promise'[x] = promise[x]
  BY <1>2 DEF TypeOK
<1>4. TypeOK'
  <2>1. Status("cancelled", 0) \in
          [told : {"none", "queued", "running", "completed", "cancelled"}, position : Nat]
    BY DEF Status
  <2> QED
    BY <1>1, <2>1 DEF TypeOK, Promises
<1>5. QueueOK'
  <2>1. \A i \in DOMAIN queue' : promise'[queue'[i]] = "pending" /\ queue'[i] \notin holds
    BY <1>1, <1>3 DEF QueueOK, TypeOK
  <2>2. ASSUME NEW x \in Calls, promise'[x] = "pending", x \notin holds
        PROVE  \E i \in DOMAIN queue' : queue'[i] = x
    <3>1. x /= Item /\ promise[x] = "pending"
      BY <2>2, <1>3
    <3>2. PICK j \in DOMAIN queue : queue[j] = x
      BY <3>1, <2>2 DEF QueueOK
    <3> QED
      BY <3>1, <3>2, <1>1
  <2>3. \A x \in holds : promise'[x] \in {"pending", "resolved", "failed"}
    BY <1>2, <1>3 DEF QueueOK, TypeOK
  <2> QED
    BY <1>1, <2>1, <2>2, <2>3 DEF QueueOK
<1>6. CursorOK'
  <2> SUFFICES ASSUME NEW i \in DOMAIN queue', i < index
               PROVE  (blocked(queue[i]) /\ queue[i] \notin cancelled)'
    BY <1>1 DEF CursorOK
  <2>1. i \in DOMAIN queue /\ queue'[i] = queue[i]
    BY <1>1
  <2> QED
    BY <2>1 DEF CursorOK, blocked
<1>7. CancelOK'
  BY <1>3 DEF CancelOK, TypeOK
<1>8. LimitsRespected'
  BY DEF LimitsRespected, Holders
<1>9. PositionsTrue'
  BY <1>1 DEF PositionsTrue
<1> QED
  BY <1>4, <1>5, <1>6, <1>7, <1>8, <1>9

LEMMA DrainBlockedInv == ASSUME IInv, DrainBlocked PROVE IInv'
<1> USE DEF IInv, DrainBlocked
<1>1. TypeOK' /\ QueueOK' /\ CancelOK'
  BY DEF TypeOK, QueueOK, CancelOK
<1>2. CursorOK'
  <2>1. index \in 1..Len(queue)
    BY DEF TypeOK
  <2>2. ASSUME NEW i \in DOMAIN queue, i < index + 1
        PROVE  blocked(queue[i]) /\ queue[i] \notin cancelled
    <3>1. i < index \/ i = index
      BY <2>1, <2>2 DEF TypeOK
    <3> QED
      BY <3>1 DEF CursorOK, Item
  <2> QED
    BY <2>1, <2>2 DEF CursorOK, blocked
<1>3. LimitsRespected'
  BY DEF LimitsRespected, Holders
<1>4. PositionsTrue'
  BY DEF PositionsTrue, TypeOK
<1> QED
  BY <1>1, <1>2, <1>3, <1>4

LEMMA DrainStartsInv == ASSUME IInv, DrainStarts PROVE IInv'
<1> USE DEF IInv, DrainStarts
<1>1. /\ queue' \in Seq(Calls) /\ index <= Len(queue') + 1 /\ index /= 0
      /\ \A i, j \in DOMAIN queue' : queue'[i] = queue'[j] => i = j
      /\ \A i \in DOMAIN queue' : \E j \in DOMAIN queue :
            /\ queue'[i] = queue[j] /\ queue[j] /= Item
            /\ i < index => j = i
      /\ \A j \in DOMAIN queue :
            queue[j] = Item \/ \E i \in DOMAIN queue' : queue'[i] = queue[j]
  BY RemovalStep
<1>2. Item \in Calls /\ promise[Item] = "pending" /\ Item \notin holds
  BY DEF TypeOK, QueueOK, Item
<1>3. /\ LimitsRespected' /\ running' \in [Dims -> [Keys -> Nat]]
      /\ \A x \in Calls : blocked(x) => blocked(x)'
  BY <1>2, ReserveStep
<1>4. TypeOK'
  <2>1. Status("running", 0) \in
          [told : {"none", "queued", "running", "completed", "cancelled"}, position : Nat]
    BY DEF Status
  <2> QED
    BY <1>1, <1>2, <1>3, <2>1 DEF TypeOK
<1>5. QueueOK'
  <2>1. \A i \in DOMAIN queue' : promise[queue'[i]] = "pending" /\ queue'[i] \notin holds'
    BY <1>1 DEF QueueOK
  <2>2. ASSUME NEW x \in Calls, promise[x] = "pending", x \notin holds'
        PROVE  \E i \in DOMAIN queue' : queue'[i] = x
    <3>1. PICK j \in DOMAIN queue : queue[j] = x
      BY <2>2 DEF QueueOK
    <3> QED
      BY <3>1, <2>2, <1>1
  <2>3. \A x \in holds' : promise[x] \in {"pending", "resolved", "failed"}
    BY <1>2 DEF QueueOK
  <2> QED
    BY <1>1, <2>1, <2>2, <2>3 DEF QueueOK
<1>6. CursorOK'
  <2> SUFFICES ASSUME NEW i \in DOMAIN queue', i < index
               PROVE  (blocked(queue[i]) /\ queue[i] \notin cancelled)'
    BY <1>1 DEF CursorOK
  <2>1. i \in DOMAIN queue /\ queue'[i] = queue[i] /\ queue[i] \in Calls
    BY <1>1 DEF TypeOK
  <2>2. blocked(queue[i]) /\ queue[i] \notin cancelled
    BY <2>1 DEF CursorOK
  <2>3. blocked(queue[i])'
    BY <2>1, <2>2, <1>3 DEF blocked
  <2> QED
    BY <2>1, <2>2, <2>3 DEF blocked
<1>7. CancelOK'
  BY DEF CancelOK
<1>8. PositionsTrue'
  BY <1>1 DEF PositionsTrue
<1> QED
  BY <1>3, <1>4, <1>5, <1>6, <1>7, <1>8

LEMMA DrainPublishesInv == ASSUME IInv, DrainPublishes PROVE IInv'
<1> USE DEF IInv, DrainPublishes
<1>1. ToSet(queue) = {queue[i] : i \in DOMAIN queue} /\ DOMAIN queue = 1..Len(queue)
  BY DEF ToSet, TypeOK
<1>2. ASSUME NEW j \in DOMAIN queue
      PROVE  (CHOOSE i \in DOMAIN queue : queue[i] = queue[j]) = j
  BY DEF QueueOK
<1>3. ASSUME NEW j \in DOMAIN queue
      PROVE  status'[queue[j]] = Status("queued", j)
  <2>1. queue[j] \in Calls /\ queue[j] \in ToSet(queue)
    BY <1>1 DEF TypeOK
  <2> QED
    BY <2>1, <1>2
<1>4. TypeOK'
  <2>1. ASSUME NEW c \in Calls
        PROVE  status'[c] \in
          [told : {"none", "queued", "running", "completed", "cancelled"}, position : Nat]
    <3>1. CASE c \in ToSet(queue)
      <4>1. PICK j \in DOMAIN queue : c = queue[j]
        BY <3>1, <1>1
      <4>2. status'[c] = Status("queued", j)
        BY <4>1, <1>3
      <4> QED
        BY <4>2, <1>1 DEF Status
    <3>2. CASE c \notin ToSet(queue)
      BY <3>2 DEF TypeOK
    <3> QED
      BY <3>1, <3>2
  <2>2. status' \in [Calls ->
          [told : {"none", "queued", "running", "completed", "cancelled"}, position : Nat]]
    BY <2>1
  <2> QED
    BY <2>2 DEF TypeOK
<1>5. QueueOK' /\ CancelOK'
  BY DEF QueueOK, CancelOK
<1>6. CursorOK'
  <2>1. \A i \in DOMAIN queue : i < index
    BY <1>1 DEF TypeOK
  <2> QED
    BY <2>1, <1>1 DEF CursorOK, blocked, TypeOK
<1>7. LimitsRespected'
  BY DEF LimitsRespected, Holders
<1>8. PositionsTrue'
  BY <1>3 DEF PositionsTrue
<1> QED
  BY <1>4, <1>5, <1>6, <1>7, <1>8

LEMMA StepInv == IInv /\ [Next]_vars => IInv'
<1> SUFFICES ASSUME IInv, [Next]_vars PROVE IInv'
  OBVIOUS
<1>1. CASE \E c \in Calls : Submit(c) \/ TaskSettles(c) \/ Release(c)
  BY <1>1, SubmitInv, SettleInv, ReleaseInv
<1>2. CASE \E r \in Runs : CancelRun(r)
  BY <1>2, CancelRunInv
<1>3. CASE Drain
  BY <1>3, DrainCancelledInv, DrainBlockedInv, DrainStartsInv, DrainPublishesInv DEF Drain
<1>4. CASE UNCHANGED vars
  <2> USE <1>4 DEF vars, IInv
  <2>1. TypeOK' /\ QueueOK' /\ CancelOK'
    BY DEF TypeOK, QueueOK, CancelOK
  <2>2. CursorOK' /\ PositionsTrue'
    BY DEF CursorOK, blocked, PositionsTrue
  <2>3. LimitsRespected'
    BY DEF LimitsRespected, Holders
  <2> QED
    BY <2>1, <2>2, <2>3
<1> QED
  BY <1>1, <1>2, <1>3, <1>4 DEF Next

\* In every behaviour of the scheduler the invariant holds.
THEOREM Invariance == Spec => []IInv
<1>1. Init => IInv
  BY InitInv
<1>2. IInv /\ [Next]_vars => IInv'
  BY StepInv
<1> QED
  BY <1>1, <1>2, PTL DEF Spec

(***************************************************************************)
(* What it gives.                                                          *)
(***************************************************************************)
\* start() and release() keep the five kinds of counters equal to the calls that
\* hold a slot, and none passes its limit, for any calls, keys and limits.
THEOREM LimitsAlwaysRespected == Spec => []LimitsRespected
<1>1. IInv => LimitsRespected
  BY DEF IInv
<1> QED
  BY <1>1, Invariance, PTL

\* drain() leaves no call waiting that could start.
THEOREM NeverIdle == Spec => []NoIdleCapacity
<1>1. IInv => NoIdleCapacity
  BY DEF IInv, CursorOK, NoIdleCapacity
<1> QED
  BY <1>1, Invariance, PTL

\* publishQueueStatuses() keeps every reported position true.
THEOREM PositionsAlwaysTrue == Spec => []PositionsTrue
<1>1. IInv => PositionsTrue
  BY DEF IInv
<1> QED
  BY <1>1, Invariance, PTL

\* A queued call of a cancelled run never reaches the provider, and is rejected
\* by the drain of the cancel itself.
THEOREM CancelledAlwaysRejected == Spec => []CancelledRejected
<1>1. IInv => CancelledRejected
  <2> SUFFICES ASSUME IInv PROVE CancelledRejected
    OBVIOUS
  <2>1. cancelled \cap holds = {}
    BY DEF IInv, CancelOK
  <2>2. ASSUME index = 0, NEW c \in cancelled
        PROVE  promise[c] = "cancelled"
    <3>1. c \in Calls /\ c \notin holds /\ promise[c] \in {"pending", "cancelled"}
      BY DEF IInv, CancelOK, TypeOK
    <3>2. \A i \in DOMAIN queue : queue[i] /= c
      BY <2>2 DEF IInv, CursorOK
    <3> QED
      BY <3>1, <3>2 DEF IInv, QueueOK
  <2> QED
    BY <2>1, <2>2 DEF CancelledRejected
<1> QED
  BY <1>1, Invariance, PTL

\* drain() never starts a call ahead of an earlier one with the same keys.
THEOREM AlwaysInTurn == Spec => InTurn
<1>1. ASSUME IInv, [Next]_vars
      PROVE  StartsInTurn
  <2> SUFFICES ASSUME NEW i \in DOMAIN queue, queue[i] \in holds',
                      NEW j \in 1..(i-1), Key[queue[j]] = Key[queue[i]]
               PROVE  FALSE
    BY DEF StartsInTurn
  <2>1. queue[i] \notin holds
    BY <1>1 DEF IInv, QueueOK
  <2>2. holds' \subseteq holds \/ DrainStarts
    BY <1>1 DEF Next, Submit, TaskSettles, Release, CancelRun, Drain, DrainCancelled,
                DrainBlocked, DrainPublishes, vars
  <2>3. DrainStarts
    BY <2>1, <2>2
  <2>4. queue[i] = Item /\ i = index
    BY <2>1, <2>3, <1>1 DEF DrainStarts, Item, IInv, QueueOK
  <2>5. j \in DOMAIN queue /\ j < index
    BY <2>4, <1>1 DEF IInv, TypeOK
  <2>6. blocked(queue[j])
    BY <2>5, <1>1 DEF IInv, CursorOK
  <2>7. blocked(Item)
    BY <2>4, <2>6 DEF blocked
  <2> QED
    BY <2>3, <2>7 DEF DrainStarts
<1> QED
  BY <1>1, Invariance, PTL DEF Spec, InTurn

(***************************************************************************)
(* The refinement.                                                         *)
(***************************************************************************)
\* Every step of the scheduler moves at most one call, as the pool of slots may.
LEMMA PlaceOf ==
    ASSUME IInv
    PROVE  \A d \in Dims, k \in Keys : Slots!Holders(d, k) = Holders(d, k)
<1> SUFFICES ASSUME NEW d \in Dims, NEW k \in Keys
             PROVE  Slots!Holders(d, k) = Holders(d, k)
  OBVIOUS
<1>1. \A c \in Calls : place[c] = "holding" <=> c \in holds
  BY DEF place, IInv, QueueOK
<1> QED
  BY <1>1 DEF Slots!Holders, Holders, IInv, TypeOK

LEMMA SlotsMove ==
    ASSUME NEW c \in Calls, NEW from, NEW to, place[c] = from, place'[c] = to,
           \A x \in Calls : x /= c => place'[x] = place[x]
    PROVE  Slots!Move(c, from, to)
<1>1. place = [x \in Calls |-> place[x]] /\ place' = [x \in Calls |-> place'[x]]
  BY DEF place
<1> HIDE DEF place
<1>2. place' = [place EXCEPT ![c] = to]
  BY <1>1
<1> QED
  BY <1>2 DEF Slots!Move

LEMMA SlotsCardinality == \A S : Slots!Cardinality(S) = Cardinality(S)
  BY DEF Slots!Cardinality, Cardinality

LEMMA SlotsStep == IInv /\ [Next]_vars => [Slots!Next]_place
<1> SUFFICES ASSUME IInv, [Next]_vars PROVE [Slots!Next]_place
  OBVIOUS
<1> USE DEF IInv
<1>1. ASSUME NEW c \in Calls, Submit(c)
      PROVE  Slots!Ask(c)
  <2>1. place[c] = "outside" /\ place'[c] = "waiting"
        /\ \A x \in Calls : x /= c => place'[x] = place[x]
    BY <1>1 DEF Submit, place, TypeOK, QueueOK
  <2> QED
    BY <2>1, SlotsMove DEF Slots!Ask
<1>2. ASSUME NEW c \in Calls, TaskSettles(c)
      PROVE  place' = place
  BY <1>2 DEF TaskSettles, place, TypeOK
<1>3. ASSUME NEW c \in Calls, Release(c)
      PROVE  Slots!GiveBack(c)
  <2>1. place[c] = "holding" /\ place'[c] = "gone"
        /\ \A x \in Calls : x /= c => place'[x] = place[x]
    BY <1>3 DEF Release, place, TypeOK, QueueOK
  <2> QED
    BY <2>1, SlotsMove DEF Slots!GiveBack
<1>4. ASSUME NEW r, CancelRun(r)
      PROVE  place' = place
  BY <1>4 DEF CancelRun, place
<1>5. ASSUME DrainCancelled
      PROVE  Slots!TurnAway(Item) /\ Item \in Calls
  <2>1. Item \in Calls /\ Item \notin holds /\ promise[Item] = "pending"
    BY <1>5 DEF DrainCancelled, TypeOK, QueueOK, Item
  <2>2. place[Item] = "waiting" /\ place'[Item] = "gone"
        /\ \A x \in Calls : x /= Item => place'[x] = place[x]
    BY <1>5, <2>1 DEF DrainCancelled, place, TypeOK
  <2> QED
    BY <2>1, <2>2, SlotsMove DEF Slots!TurnAway
<1>6. ASSUME DrainBlocked \/ DrainPublishes \/ UNCHANGED vars
      PROVE  place' = place
  BY <1>6 DEF DrainBlocked, DrainPublishes, vars, place
<1>7. ASSUME DrainStarts
      PROVE  Slots!Grant(Item) /\ Item \in Calls
  <2>1. Item \in Calls
    BY <1>7 DEF DrainStarts, TypeOK, Item
  <2>2. ASSUME NEW d \in Dims
        PROVE  Cardinality(Slots!Holders(d, Key[Item][d])) < Limit[d]
    <3>1. Key[Item][d] \in Keys
      BY <2>1, KeyAssumption
    <3>2. Slots!Holders(d, Key[Item][d]) = Holders(d, Key[Item][d])
      BY <3>1, PlaceOf
    <3>3. running[d][Key[Item][d]] < Limit[d]
      BY <1>7, <3>1, LimitAssumption DEF DrainStarts, blocked, TypeOK
    <3> QED
      BY <3>1, <3>2, <3>3 DEF LimitsRespected
  <2>3. Item \notin holds /\ promise[Item] = "pending"
    BY <1>7 DEF DrainStarts, TypeOK, QueueOK, Item
  <2>4. place[Item] = "waiting" /\ place'[Item] = "holding"
        /\ \A x \in Calls : x /= Item => place'[x] = place[x]
    BY <1>7, <2>1, <2>3 DEF DrainStarts, place, TypeOK
  <2>5. Slots!Move(Item, "waiting", "holding")
    BY <2>1, <2>4, SlotsMove
  <2> QED
    BY <2>1, <2>2, <2>5, SlotsCardinality DEF Slots!Grant
<1> QED
  BY <1>1, <1>2, <1>3, <1>4, <1>5, <1>6, <1>7 DEF Next, Drain, Slots!Next

\* The queue, the counters and the cancelled flags implement the pool of slots.
THEOREM SchedulerImplementsSlots == Spec => ImplementsSlots
<1>1. Init => Slots!Init
  BY DEF Init, Slots!Init, place
<1>2. IInv /\ [Next]_vars => [Slots!Next]_place
  BY SlotsStep
<1> QED
  BY <1>1, <1>2, Invariance, PTL DEF Spec, ImplementsSlots, Slots!Spec

-----------------------------------------------------------------------------
(***************************************************************************)
(* The stream of one call, for every buffer size and every number of        *)
(* chunks a provider may send.                                             *)
(***************************************************************************)

\* The chunks, by their numbers: what was taken is 1, 2, ..., what is buffered
\* goes on from there, and the chunk in the pump's hand is the last one sent.
Numbered ==
    /\ \A i \in 1..Len(taken) : taken[i] = i
    /\ \A i \in 1..Len(chunks) : chunks[i] = Len(taken) + i
    /\ sent = Len(taken) + Len(chunks) + Len(inHand)

\* The two loops and the variables they share.
LoopsOK ==
    /\ pump = "unborn" => generator = "suspended" /\ chunks = <<>> /\ taken = <<>>
    /\ done <=> pump = "over"
    /\ failure => pump \in {"caught", "over"}
    /\ generator \in {"ended", "threw"} =>
          /\ pump = "over" /\ chunks = <<>>
          /\ generator = "threw" <=> failure

StreamInv == StreamTypeOK /\ Numbered /\ LoopsOK

LEMMA HandFacts == Len(inHand) = (IF pump \in {"full", "roused"} THEN 1 ELSE 0)
  BY DEF inHand

LEMMA StreamInitInv == StreamInit => StreamInv
<1> SUFFICES ASSUME StreamInit PROVE StreamInv
  OBVIOUS
<1> USE DEF StreamInit, BufferAssumption, LongestAssumption
<1>1. Len(chunks) = 0 /\ Len(taken) = 0 /\ Len(inHand) = 0
  BY DEF inHand
<1>2. StreamTypeOK
  <2>1. chunks \in Seq(Nat) /\ taken \in Seq(Nat)
    OBVIOUS
  <2>2. sent \in 0..Longest
    BY LongestAssumption
  <2>3. Len(chunks) <= BufferLimit
    BY <1>1, BufferAssumption
  <2> QED
    BY <2>1, <2>2, <2>3 DEF StreamTypeOK, PumpPlaces, GeneratorPlaces
<1>3. Numbered /\ LoopsOK
  BY <1>1 DEF Numbered, LoopsOK
<1> QED
  BY <1>2, <1>3 DEF StreamInv

\* Pushing a chunk, or waiting with it, keeps the numbering.
LEMMA OfferStep ==
    ASSUME StreamInv, NEW n \in Nat, n = Len(taken) + Len(chunks) + 1, Offer(n),
           n \in 0..Longest, sent' = n, UNCHANGED <<taken, failure, done>>,
           pump \in {"reading", "roused"}
    PROVE  StreamInv'
<1> USE BufferAssumption DEF StreamInv
<1>1. CASE Len(chunks) >= BufferLimit
  <2>1. pump' = "full" /\ chunks' = chunks /\ generator' = generator
    BY <1>1 DEF Offer
  <2>2. Len(inHand)' = 1
    BY <2>1 DEF inHand
  <2>3. StreamTypeOK'
    BY <2>1 DEF StreamTypeOK, PumpPlaces
  <2>4. Numbered'
    BY <2>1, <2>2 DEF Numbered, StreamTypeOK
  <2>5. LoopsOK'
    BY <2>1 DEF LoopsOK
  <2> QED
    BY <2>3, <2>4, <2>5
<1>2. CASE ~(Len(chunks) >= BufferLimit)
  <2>1. pump' = "reading" /\ chunks' = Append(chunks, n) /\ generator' = wake
    BY <1>2 DEF Offer
  <2>2. Len(inHand)' = 0
    BY <2>1 DEF inHand
  <2>3. /\ chunks' \in Seq(Nat) /\ Len(chunks') = Len(chunks) + 1
        /\ \A i \in 1..Len(chunks) : chunks'[i] = chunks[i]
        /\ chunks'[Len(chunks) + 1] = n
    BY <2>1 DEF StreamTypeOK
  <2>4. generator' \in GeneratorPlaces /\ (generator' \in {"ended", "threw"} => generator' = generator)
    BY <2>1 DEF wake, StreamTypeOK, GeneratorPlaces
  <2>5. StreamTypeOK'
    BY <2>1, <2>3, <2>4, <1>2 DEF StreamTypeOK, PumpPlaces
  <2>6. Numbered'
    <3>1. Len(taken) \in Nat /\ Len(chunks) \in Nat
      BY DEF StreamTypeOK
    <3>2. ASSUME NEW i \in 1..Len(chunks')
          PROVE  chunks'[i] = Len(taken) + i
      <4>1. i \in 1..Len(chunks) \/ i = Len(chunks) + 1
        BY <2>3, <3>1
      <4>2. CASE i \in 1..Len(chunks)
        BY <4>2, <2>3 DEF Numbered
      <4>3. CASE i = Len(chunks) + 1
        BY <4>3, <2>3, <3>1
      <4> QED
        BY <4>1, <4>2, <4>3
    <3>3. sent' = Len(taken) + Len(chunks') + Len(inHand)'
      BY <2>2, <2>3, <3>1
    <3> QED
      BY <3>2, <3>3 DEF Numbered
  <2>7. LoopsOK'
    BY <2>1, <2>4 DEF LoopsOK
  <2> QED
    BY <2>5, <2>6, <2>7
<1> QED
  BY <1>1, <1>2

LEMMA StreamStepInv == StreamInv /\ [StreamNext]_streamVars => StreamInv'
<1> SUFFICES ASSUME StreamInv, [StreamNext]_streamVars PROVE StreamInv'
  OBVIOUS
<1> USE BufferAssumption, LongestAssumption
<1>1. CASE SlotGranted \/ CallCancelled \/ ProviderStops \/ TaskCaught \/ TaskFinished
  <2> USE <1>1 DEF SlotGranted, CallCancelled, ProviderStops, TaskCaught, TaskFinished
  <2>1. /\ UNCHANGED <<sent, chunks, taken>> /\ Len(inHand)' = Len(inHand)
        /\ generator' \in {generator, wake}
    BY DEF inHand
  <2>2. StreamTypeOK'
    BY <2>1 DEF StreamInv, StreamTypeOK, PumpPlaces, GeneratorPlaces, wake
  <2>3. Numbered'
    BY <2>1 DEF StreamInv, Numbered
  <2>4. LoopsOK'
    BY <2>1 DEF StreamInv, LoopsOK, StreamTypeOK, wake
  <2> QED
    BY <2>2, <2>3, <2>4 DEF StreamInv
<1>2. CASE ProviderSends
  <2>1. sent + 1 = Len(taken) + Len(chunks) + 1
    BY <1>2, HandFacts DEF ProviderSends, StreamInv, Numbered, StreamTypeOK
  <2>2. sent + 1 \in Nat /\ sent + 1 \in 0..Longest
    BY <1>2 DEF ProviderSends, StreamInv, StreamTypeOK
  <2> QED
    BY <1>2, <2>1, <2>2, OfferStep DEF ProviderSends
<1>3. CASE SpaceFound
  <2>1. sent = Len(taken) + Len(chunks) + 1
    BY <1>3, HandFacts DEF SpaceFound, StreamInv, Numbered, StreamTypeOK
  <2>2. sent \in Nat /\ sent \in 0..Longest
    BY DEF StreamInv, StreamTypeOK
  <2> QED
    BY <1>3, <2>1, <2>2, OfferStep DEF SpaceFound
<1>4. CASE Begin \/ AwaitChunk \/ Finish
  <2> USE <1>4 DEF Begin, AwaitChunk, Finish, GeneratorRuns
  <2>1. UNCHANGED <<sent, chunks, taken, failure, done>> /\ Len(inHand)' = Len(inHand)
    BY DEF inHand
  <2>2. StreamTypeOK'
    BY <2>1 DEF StreamInv, StreamTypeOK, PumpPlaces, GeneratorPlaces
  <2>3. Numbered'
    BY <2>1 DEF StreamInv, Numbered
  <2>4. LoopsOK'
    BY <2>1 DEF StreamInv, LoopsOK, StreamTypeOK
  <2> QED
    BY <2>2, <2>3, <2>4 DEF StreamInv
<1>5. CASE TakeChunk
  <2> USE <1>5 DEF TakeChunk, GeneratorRuns
  <2>1. chunks \in Seq(Nat) /\ chunks /= <<>> /\ Len(chunks) \in Nat /\ Len(chunks) > 0
    BY DEF StreamInv, StreamTypeOK
  <2>2. /\ chunks' \in Seq(Nat) /\ Len(chunks') = Len(chunks) - 1
        /\ \A i \in 1..(Len(chunks) - 1) : chunks'[i] = chunks[i + 1]
    BY <2>1
  <2>3. /\ Head(chunks) = Len(taken) + 1 /\ Len(taken) \in Nat
        /\ taken' = Append(taken, Len(taken) + 1)
    BY <2>1 DEF StreamInv, Numbered, StreamTypeOK
  <2>4. /\ taken' \in Seq(Nat) /\ Len(taken') = Len(taken) + 1
        /\ \A i \in 1..Len(taken) : taken'[i] = taken[i]
        /\ taken'[Len(taken) + 1] = Len(taken) + 1
    BY <2>3 DEF StreamInv, StreamTypeOK
  <2>5. Len(inHand)' = Len(inHand) /\ Len(inHand) \in Nat
    BY DEF inHand, wakeSpace
  <2>6. StreamTypeOK'
    BY <2>1, <2>2, <2>4 DEF StreamInv, StreamTypeOK, PumpPlaces, GeneratorPlaces, wakeSpace
  <2>7. Numbered'
    <3>1. ASSUME NEW i \in 1..Len(taken') PROVE taken'[i] = i
      BY <2>3, <2>4 DEF StreamInv, Numbered
    <3>2. ASSUME NEW i \in 1..Len(chunks') PROVE chunks'[i] = Len(taken') + i
      <4>1. /\ i \in 1..(Len(chunks) - 1) /\ i + 1 \in 1..Len(chunks)
            /\ Len(taken) + (i + 1) = (Len(taken) + 1) + i
        BY <2>1, <2>2, <2>3
      <4>2. chunks[i + 1] = Len(taken) + (i + 1)
        BY <4>1 DEF StreamInv, Numbered
      <4> QED
        BY <2>2, <2>4, <4>1, <4>2
    <3>3. sent' = Len(taken') + Len(chunks') + Len(inHand)'
      BY <2>1, <2>2, <2>3, <2>4, <2>5 DEF StreamInv, Numbered
    <3> QED
      BY <3>1, <3>2, <3>3 DEF Numbered
  <2>8. LoopsOK'
    BY DEF StreamInv, LoopsOK, StreamTypeOK, wakeSpace
  <2> QED
    BY <2>6, <2>7, <2>8 DEF StreamInv
<1>6. CASE UNCHANGED streamVars
  BY <1>6 DEF streamVars, StreamInv, StreamTypeOK, Numbered, LoopsOK, inHand
<1> QED
  BY <1>1, <1>2, <1>3, <1>4, <1>5, <1>6 DEF StreamNext, Pump, Generator

THEOREM StreamInvariance == StreamSpec => []StreamInv
<1>1. StreamInit => StreamInv
  BY StreamInitInv
<1>2. StreamInv /\ [StreamNext]_streamVars => StreamInv'
  BY StreamStepInv
<1> QED
  BY <1>1, <1>2, PTL DEF StreamSpec

\* No chunk is lost, repeated or put out of order between the provider and the
\* caller, whatever the size of the buffer.
THEOREM EveryChunkAlwaysOnce == StreamSpec => []EveryChunkOnce
<1>1. StreamInv => EveryChunkOnce
  <2> SUFFICES ASSUME StreamInv PROVE EveryChunkOnce
    OBVIOUS
  <2> DEFINE all == taken \o chunks \o inHand
  <2>1. taken \in Seq(Nat) /\ chunks \in Seq(Nat) /\ inHand \in Seq(Nat) /\ sent \in Nat
    BY DEF StreamInv, StreamTypeOK, inHand
  <2>2. all \in Seq(Nat) /\ Len(all) = sent
    BY <2>1 DEF StreamInv, Numbered
  <2>3. \A i \in 1..Len(inHand) : inHand[i] = Len(taken) + Len(chunks) + i
    BY <2>1 DEF inHand, StreamInv, Numbered
  <2>4. ASSUME NEW i \in 1..sent
        PROVE  all[i] = i
    <3>1. CASE i <= Len(taken)
      BY <3>1, <2>1 DEF StreamInv, Numbered
    <3>2. CASE i > Len(taken) /\ i <= Len(taken) + Len(chunks)
      <4>1. i - Len(taken) \in 1..Len(chunks)
        BY <3>2, <2>1
      <4>2. all[i] = chunks[i - Len(taken)]
        BY <4>1, <3>2, <2>1
      <4> QED
        BY <4>1, <4>2, <2>1 DEF StreamInv, Numbered
    <3>3. CASE i > Len(taken) + Len(chunks)
      <4>1. i - (Len(taken) + Len(chunks)) \in 1..Len(inHand)
        BY <3>3, <2>1 DEF StreamInv, Numbered
      <4>2. all[i] = inHand[i - (Len(taken) + Len(chunks))]
        BY <4>1, <3>3, <2>1
      <4> QED
        BY <4>1, <4>2, <2>1, <2>3
    <3>4. Len(taken) \in Nat /\ Len(chunks) \in Nat /\ i \in Nat
      BY <2>1
    <3> HIDE DEF all
    <3> QED
      BY <3>1, <3>2, <3>3, <3>4
  <2> HIDE DEF all
  <2>5. all = [i \in 1..sent |-> i]
    BY <2>1, <2>2, <2>4
  <2> QED
    BY <2>5 DEF EveryChunkOnce, all
<1> QED
  BY <1>1, StreamInvariance, PTL

\* A slot is not given back while more than the buffer holds is untaken.
THEOREM SlotAlwaysKept == StreamSpec => []SlotKeptForReader
<1>1. StreamInv => SlotKeptForReader
  <2> SUFFICES ASSUME StreamInv, pump \in {"returned", "threw", "caught", "over"}
               PROVE  sent <= Len(taken) + BufferLimit
    BY DEF SlotKeptForReader
  <2>1. Len(taken) \in Nat /\ Len(chunks) \in Nat /\ Len(chunks) <= BufferLimit
    BY DEF StreamInv, StreamTypeOK
  <2>2. Len(inHand) = 0
    BY HandFacts
  <2>3. sent = Len(taken) + Len(chunks)
    BY <2>1, <2>2 DEF StreamInv, Numbered
  <2> QED
    BY <2>1, <2>3, BufferAssumption
<1> QED
  BY <1>1, StreamInvariance, PTL

\* The end and the failure reach the caller after the last chunk.
THEOREM AlwaysEndsAfterLast == StreamSpec => []EndsAfterLast
<1>1. StreamInv => EndsAfterLast
  BY HandFacts DEF StreamInv, StreamTypeOK, Numbered, LoopsOK, EndsAfterLast
<1> QED
  BY <1>1, StreamInvariance, PTL
=============================================================================
