------------------------------ MODULE CallSlots ------------------------------
(***************************************************************************)
(* What the scheduler of model calls promises its callers, with no queue   *)
(* and no counters: a call that asks for a slot waits, is then either given *)
(* one or turned away, and gives it back.  A slot is given only while, for  *)
(* each of the five limits, fewer calls with the same key hold one.         *)
(***************************************************************************)
EXTENDS Naturals, FiniteSets

CONSTANTS
    Calls,      \* the calls that may ask
    Dims,       \* what is limited: "global", "provider", "project", ...
    Key,        \* Key[c][d]: the key under which dimension d counts call c
    Limit       \* Limit[d]: how many calls with one key may hold a slot

VARIABLE place  \* where each call is

Holders(d, k) == {c \in Calls : place[c] = "holding" /\ Key[c][d] = k}

WithinLimits ==
    \A c \in Calls, d \in Dims : Cardinality(Holders(d, Key[c][d])) <= Limit[d]

Init == place = [c \in Calls |-> "outside"]

Move(c, from, to) == /\ place[c] = from
                     /\ place' = [place EXCEPT ![c] = to]

Ask(c) == Move(c, "outside", "waiting")

Grant(c) == /\ \A d \in Dims : Cardinality(Holders(d, Key[c][d])) < Limit[d]
            /\ Move(c, "waiting", "holding")

TurnAway(c) == Move(c, "waiting", "gone")

GiveBack(c) == Move(c, "holding", "gone")

Next == \E c \in Calls : Ask(c) \/ Grant(c) \/ TurnAway(c) \/ GiveBack(c)

Spec == Init /\ [][Next]_place
=============================================================================
