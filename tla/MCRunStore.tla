----------------------------- MODULE MCRunStore -----------------------------
(***************************************************************************)
(* Small instances of RunStore for TLC: two reads, two cancels, a delete.  *)
(***************************************************************************)
EXTENDS RunStore

CONSTANTS r1, r2, c1, c2, d1

MCKind == [q \in Requests |-> IF q \in {r1, r2} THEN "read"
                              ELSE IF q \in {c1, c2} THEN "cancel" ELSE "delete"]
=============================================================================
