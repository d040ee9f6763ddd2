--------------------------- MODULE MCRunLifecycle ---------------------------
(***************************************************************************)
(* Small instances of RunLifecycle for TLC.                                *)
(***************************************************************************)
EXTENDS RunLifecycle

CONSTANTS doc1, doc2, doc3, fea1, fea2, c1, c2, s1

MCKind == [r \in Runs |-> IF r \in {doc1, doc2, doc3} THEN "document"
                                                      ELSE "feasibility"]
=============================================================================
