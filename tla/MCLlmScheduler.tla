--------------------------- MODULE MCLlmScheduler ---------------------------
(***************************************************************************)
(* A small instance of LlmScheduler for TLC.                               *)
(***************************************************************************)
EXTENDS LlmScheduler, TLC

CONSTANTS a, b, c, d

MCKeys == {"all", "P1", "P2", "J1", "J2", "U1", "U2", "R1", "R2", "R3"}

Call(provider, project, user, run) ==
    "global" :> "all" @@ "provider" :> provider @@ "project" :> project
        @@ "user" :> user @@ "run" :> run

\* Two calls of one run, a run of the same user in another project, and a run
\* of another user in the same project.
MCKey == [x \in Calls |->
            CASE x \in {a, b} -> Call("P1", "J1", "U1", "R1")
              [] x = c -> Call("P1", "J2", "U1", "R2")
              [] x = d -> Call("P2", "J1", "U2", "R3")]

\* The shape of the defaults 4/4/2/2/2, halved: c can be blocked by its user
\* alone, d by its project alone.
MCLimit == "global" :> 2 @@ "provider" :> 2 @@ "project" :> 1 @@ "user" :> 1
             @@ "run" :> 1
=============================================================================
