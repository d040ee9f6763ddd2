------------------------ MODULE RequirementsPipeline ------------------------
(***************************************************************************)
(* One run of the requirements pipeline, runStagePipeline of               *)
(* runs/pipelines/requirements-pipeline.ts: its tasks generate and render  *)
(* one plain diagram each, all at once; when there is a use case model, a  *)
(* pool of workers does the same for the analysis model of each use case,  *)
(* up to twice more for those that have failed; the pipeline itself awaits *)
(* them in an order of its own.  Somebody may close the run meanwhile.     *)
(*                                                                         *)
(* A task is an async function; between its awaits it runs alone.  The     *)
(* repairs within a generation or a rendering are part of that await, the  *)
(* extracted rules are left out, and so are traceability and the matrices. *)
(* A diagram has one model here, and a model one artifact.                 *)
(***************************************************************************)
EXTENDS Naturals, FiniteSets

CONSTANTS
  Others,       \* kinds of plain diagrams other than "usecase"
  UseCases,     \* use cases a use case model may list
  Stored,       \* diagrams and use cases a project may have models of
  Concurrency   \* workers of the pool of analysis models

ASSUME ConcurrencyAssumption == Concurrency \in Nat \ {0}
ASSUME KindsAssumption ==
  /\ "usecase" \notin Others /\ "analysis" \notin Others
  /\ UseCases \cap (Others \cup {"usecase", "analysis"}) = {}
  /\ IsFiniteSet(UseCases)
  /\ Stored \subseteq Others \cup {"usecase"} \cup UseCases

VARIABLES
  request,    \* [targets, given]: the use cases and models it was started with
  status,     \* snapshot.status
  selected,   \* snapshot.selectedDiagrams
  models,     \* the pipeline's models: "none", "given" or "made"
  saved,      \* snapshot.models
  listed,     \* the use cases of the use case model
  plantUml,   \* models that have been turned into PlantUML
  svgs,       \* models that have an SVG
  errors,     \* keys of diagramErrors
  task,       \* where the task of a diagram or of a use case is
  main,       \* what the pipeline itself awaits
  round,      \* repetitions of the pool so far
  handled,    \* the tasks whose rejection somebody handles
  up          \* the process is up

artifacts == <<plantUml, svgs, errors>>
vars == <<request, status, selected, models, saved, listed, artifacts, task, main,
          round, handled, up>>

Diagrams == Others \cup {"usecase"}
Ids == Diagrams \cup UseCases

\* The key of an error: all analysis models share one.
kind(i) == IF i \in UseCases THEN "analysis" ELSE i

Closed == status \in {"completed", "failed", "cancelled"}   \* isRunCancelled

Running == {i \in Ids : task[i] \in {"generating", "compact", "rendering"}}

\* The diagrams that have a task in prerequisiteTasks.
Prerequisites == {d \in Diagrams : task[d] # "idle"}

-----------------------------------------------------------------------------
(***************************************************************************)
(* Tasks: generateRequirementDiagram and generateAnalysisForUseCase, with  *)
(* renderRequirementModelArtifact.                                         *)
(***************************************************************************)
\* A task that throws for a cancelled or ended run.  A promise that is rejected
\* before anybody awaits it ends the process; those of the pool are awaited.
Rejects(i) ==
  /\ task' = [task EXCEPT ![i] = "rejected"]
  /\ up' = (i \in handled \cup UseCases)

\* The model has come, perhaps late: it is kept before the run is looked at.
Generated(i) ==
  /\ task[i] \in {"generating", "compact"}
  /\ models' = [models EXCEPT ![i] = "made"] /\ saved' = models'
  /\ IF i = "usecase" THEN listed' \in SUBSET UseCases ELSE UNCHANGED listed
  /\ errors' = errors \ {kind(i)}
  /\ \/ Closed /\ Rejects(i) /\ UNCHANGED plantUml
     \/ /\ ~Closed
        /\ task' = [task EXCEPT ![i] = "rendering"]
        /\ plantUml' = plantUml \cup {i}
        /\ UNCHANGED up
  /\ UNCHANGED <<request, status, selected, svgs, main, round, handled>>

\* After a timeout, activity and analysis are asked for once more, in short.
TimesOut(i) ==
  /\ task[i] = "generating" /\ i \in UseCases \cup {"activity"}
  /\ task' = [task EXCEPT ![i] = "compact"]
  /\ UNCHANGED <<request, status, selected, models, saved, listed, artifacts, main,
                 round, handled, up>>

\* The catch of a task: a diagram that has failed has an error, and is done with.
Fails(i) ==
  \/ Closed /\ Rejects(i) /\ UNCHANGED errors
  \/ /\ ~Closed
     /\ task' = [task EXCEPT ![i] = "failed"]
     /\ errors' = errors \cup {kind(i)}
     /\ UNCHANGED up

\* A call has failed, or its answer and those of its repairs were unusable, or the
\* task has run out of time, or its timer has seen that the run is closed.
GenerationFails(i) ==
  /\ task[i] \in {"generating", "compact"}
  /\ Fails(i)
  /\ UNCHANGED <<request, status, selected, models, saved, listed, plantUml, svgs,
                 main, round, handled>>

\* renderArtifactWithRepair returns an SVG or what went wrong, or a repair throws.
RenderEnds(i) ==
  /\ task[i] = "rendering"
  /\ \/ Fails(i) /\ UNCHANGED svgs
     \/ /\ ~Closed /\ UNCHANGED up
        /\ task' = [task EXCEPT ![i] = "done"]
        /\ \/ svgs' = svgs \cup {i} /\ errors' = errors \ {kind(i)}
           \/ errors' = errors \cup {kind(i)} /\ UNCHANGED svgs
  /\ UNCHANGED <<request, status, selected, models, saved, listed, plantUml, main,
                 round, handled>>

\* A worker of mapWithConcurrency takes the next use case; one that was rejected
\* takes no more.
PicksUp(u) ==
  /\ task[u] = "waiting"
  /\ Cardinality({v \in UseCases : v \in Running \/ task[v] = "rejected"}) < Concurrency
  /\ task' = [task EXCEPT ![u] = IF Closed THEN "rejected" ELSE "generating"]
  /\ UNCHANGED <<request, status, selected, models, saved, listed, artifacts, main,
                 round, handled, up>>

-----------------------------------------------------------------------------
(***************************************************************************)
(* The pipeline itself.                                                    *)
(***************************************************************************)
\* runStagePipeline throws; handleRunPipelineError fails a run that is open.
Throws ==
  /\ main' = "over"
  /\ status' = IF Closed THEN status ELSE "failed"
  /\ UNCHANGED <<request, selected, models, listed, artifacts, task, round, handled, up>>

\* A selected analysis needs a use case model: without one it is made first.
prerequisiteDiagrams ==
  (selected \ {"analysis"})
  \cup {d \in {"usecase"} : "analysis" \in selected /\ models[d] = "none"}

\* All tasks start at once; only those that are awaited next have a handler.
StartsTasks ==
  /\ status' = "running"
  /\ selected' = selected \cup prerequisiteDiagrams
  /\ task' = [i \in Ids |-> IF i \in prerequisiteDiagrams THEN "generating" ELSE "idle"]
  /\ IF "analysis" \in selected
     THEN main' = "usecase" /\ handled' = prerequisiteDiagrams \cap {"usecase"}
     ELSE main' = "rest" /\ handled' = prerequisiteDiagrams
  /\ UNCHANGED <<request, models, saved, listed, artifacts, round, up>>

\* A run that comes with rules and asks for diagrams extracts nothing; the rules'
\* baseline may forbid to go on.
Starts ==
  /\ main = "start"
  /\ \/ ~Closed /\ selected # {} /\ StartsTasks
     \/ (Closed \/ selected # {}) /\ Throws /\ UNCHANGED saved
     \/ /\ ~Closed /\ main' = "extracting" /\ status' = "running"
        /\ UNCHANGED <<request, selected, models, saved, listed, artifacts, task,
                       round, handled, up>>

Extracted ==
  /\ main = "extracting"
  /\ \/ ~Closed /\ StartsTasks
     \/ Throws /\ UNCHANGED saved

\* The use cases that are to get an analysis model.
analysisUseCases ==
  IF request.targets = {} THEN listed ELSE listed \cap request.targets

\* Mutant: an analysis of some use cases starts from none.
withoutTargets_drops_all == [i \in Ids |-> IF i \in UseCases THEN "none" ELSE models[i]]

\* Analysis models that are to be made again are dropped.
withoutTargets ==
  [i \in Ids |-> IF i \in UseCases /\ (request.targets = {} \/ i \in request.targets)
                 THEN "none" ELSE models[i]]

StartsAnalysis ==
  /\ main = "usecase" /\ task["usecase"] \in {"idle", "done", "failed"}
  /\ ~Closed /\ models["usecase"] # "none"
  /\ request.targets = {} \/ analysisUseCases # {}
  /\ models' = withoutTargets
  /\ task' = [i \in Ids |-> IF i \in analysisUseCases THEN "waiting" ELSE task[i]]
  /\ main' = "analysis" /\ round' = 0
  /\ UNCHANGED <<request, status, selected, saved, listed, artifacts, handled, up>>

\* There is no model to begin with: the other tasks are awaited first.
LacksUseCases ==
  /\ main = "usecase" /\ task["usecase"] \in {"idle", "done", "failed"}
  /\ ~Closed /\ models["usecase"] = "none"
  /\ main' = "noUseCases" /\ handled' = Prerequisites
  /\ UNCHANGED <<request, status, selected, models, saved, listed, artifacts, task,
                 round, up>>

UseCaseThrows ==
  /\ main = "usecase" /\ task["usecase"] \notin {"generating", "compact", "rendering"}
  /\ \/ Closed
     \/ /\ models["usecase"] # "none"
        /\ request.targets # {} /\ analysisUseCases = {}
  /\ Throws /\ UNCHANGED saved

\* Promise.all returns when all are settled, and throws at the first rejection.
Settled(S) == \A i \in S : task[i] \in {"done", "failed"}
Broken(S) == \E i \in S : task[i] = "rejected"

NoUseCasesThrows ==
  /\ main = "noUseCases"
  /\ Settled(Prerequisites) \/ Broken(Prerequisites)
  /\ Throws /\ UNCHANGED saved

missingUseCases == {u \in analysisUseCases : task[u] # "done"}

\* Mutant: missing use cases are tried again as long as there are any.
RetriesMissing_for_ever ==
  /\ main = "analysis" /\ Settled(analysisUseCases)
  /\ missingUseCases # {} /\ ~(round = 0 /\ Closed)
  /\ task' = [i \in Ids |-> IF i \in missingUseCases THEN "waiting" ELSE task[i]]
  /\ round' = IF round < 2 THEN round + 1 ELSE round
  /\ UNCHANGED <<request, status, selected, models, saved, listed, artifacts, main,
                 handled, up>>

\* The use cases that have failed go through the pool again.
RetriesMissing ==
  /\ main = "analysis" /\ Settled(analysisUseCases)
  /\ missingUseCases # {} /\ round < 2 /\ ~(round = 0 /\ Closed)
  /\ task' = [i \in Ids |-> IF i \in missingUseCases THEN "waiting" ELSE task[i]]
  /\ round' = round + 1
  /\ UNCHANGED <<request, status, selected, models, saved, listed, artifacts, main,
                 handled, up>>

\* Mutant: it is enough that there are analysis models.
covered_if_any == \E u \in UseCases : models[u] # "none"

\* There are analysis models, and every use case in question has got one.
covered == missingUseCases = {} /\ \E u \in UseCases : models[u] # "none"

AnalysisDone ==
  /\ main = "analysis" /\ Settled(analysisUseCases)
  /\ covered /\ ~(round = 0 /\ Closed)
  /\ main' = "rest" /\ handled' = Prerequisites
  /\ UNCHANGED <<request, status, selected, models, saved, listed, artifacts, task,
                 round, up>>

AnalysisThrows ==
  /\ main = "analysis"
  /\ \/ Broken(analysisUseCases)
     \/ /\ Settled(analysisUseCases)
        /\ \/ round = 0 /\ Closed
           \/ ~covered /\ (missingUseCases = {} \/ round = 2)
  /\ Throws /\ UNCHANGED saved

\* Mutant: the plain diagrams that are still under way are forgotten.
RestSettled_after_analysis == "analysis" \in selected \/ Settled(Prerequisites)

RestSettled == Settled(Prerequisites)

NoModels == selected # {} /\ \A i \in Ids : models[i] = "none"

Completes ==
  /\ main = "rest" /\ RestSettled
  /\ ~Closed /\ ~NoModels
  /\ plantUml = {} \/ svgs # {}
  /\ status' = "completed" /\ main' = "over" /\ saved' = models
  /\ UNCHANGED <<request, selected, models, listed, artifacts, task, round, handled, up>>

\* When nothing could be rendered the models are kept all the same.
RestThrows ==
  /\ main = "rest"
  /\ \/ /\ Broken(Prerequisites) \/ (RestSettled /\ (Closed \/ NoModels))
        /\ UNCHANGED saved
     \/ /\ RestSettled /\ ~Closed /\ ~NoModels /\ plantUml # {} /\ svgs = {}
        /\ saved' = models
  /\ Throws

-----------------------------------------------------------------------------
\* A user, the administrator or the worker's control message cancels the run.
Cancelled ==
  /\ ~Closed
  /\ status' = "cancelled"
  /\ UNCHANGED <<request, selected, models, saved, listed, artifacts, task, main,
                 round, handled, up>>

\* createEmptySnapshot; a run is started with the models of its project.
Init ==
  /\ request \in [targets : SUBSET UseCases, given : SUBSET Stored]
  /\ selected \in SUBSET (Diagrams \cup {"analysis"})
  /\ status = "queued"
  /\ models = [i \in Ids |-> IF i \in request.given THEN "given" ELSE "none"]
  /\ saved = models
  /\ listed \in SUBSET UseCases /\ ("usecase" \notin request.given => listed = {})
  /\ plantUml = {} /\ svgs = {} /\ errors = {}
  /\ task = [i \in Ids |-> "idle"]
  /\ main = "start" /\ round = 0 /\ handled = {} /\ up = TRUE

Task(i) == Generated(i) \/ TimesOut(i) \/ GenerationFails(i) \/ RenderEnds(i)

Analysis == StartsAnalysis \/ LacksUseCases \/ RetriesMissing \/ AnalysisDone

Pipeline ==
  \/ Starts \/ Extracted \/ Analysis \/ Completes
  \/ UseCaseThrows \/ NoUseCasesThrows \/ AnalysisThrows \/ RestThrows

\* With a given use case model there is nothing to await between the start of
\* the tasks and that of the pool.
NoAwait == main = "usecase" /\ task["usecase"] = "idle"

Next ==
  /\ up
  /\ \/ Pipeline
     \/ /\ ~NoAwait
        /\ \/ Cancelled
           \/ \E i \in Ids : Task(i)
           \/ \E u \in UseCases : PicksUp(u)

Spec == Init /\ [][Next]_vars

\* A task's own timer ends its generation; the render service and the model that
\* repairs PlantUML answer or fail; the event loop runs what is ready.
FairSpec ==
  /\ Spec
  /\ WF_vars(up /\ Pipeline)
  /\ \A i \in Ids : WF_vars(up /\ ~NoAwait /\ Task(i))
  /\ \A u \in UseCases : WF_vars(up /\ PicksUp(u))

-----------------------------------------------------------------------------
(***************************************************************************)
(* Properties.                                                             *)
(***************************************************************************)
\* Every variable has its type.
TypeOK ==
  /\ request \in [targets : SUBSET UseCases, given : SUBSET Stored]
  /\ status \in {"queued", "running", "completed", "failed", "cancelled"}
  /\ selected \subseteq Diagrams \cup {"analysis"}
  /\ models \in [Ids -> {"none", "given", "made"}] /\ saved \in [Ids -> {"none", "given", "made"}]
  /\ listed \subseteq UseCases
  /\ plantUml \subseteq Ids /\ svgs \subseteq Ids /\ errors \subseteq Diagrams \cup {"analysis"}
  /\ task \in [Ids -> {"idle", "waiting", "generating", "compact", "rendering", "done",
                      "failed", "rejected"}]
  /\ main \in {"start", "extracting", "usecase", "noUseCases", "analysis", "rest", "over"}
  /\ round \in 0..2 /\ handled \subseteq Diagrams /\ up \in BOOLEAN

\* A run that completes has answered for all it was asked: every plain diagram
\* has been drawn or has its error, not both, and every use case in question has
\* an analysis model, whatever failed, timed out or was tried again in between.
EveryDiagramAnswered ==
  status = "completed" =>
    /\ \A d \in selected \ {"analysis"} : (d \in svgs) # (d \in errors)
    /\ "analysis" \in selected =>
         \A u \in analysisUseCases : saved[u] = "made" /\ u \in plantUml

\* No model the run was given is lost, however the run ends: but for analysis
\* models that were to be made again, and in a completed run only for use cases
\* that are not there any more.
GivenModelsKept ==
  \A i \in request.given :
    saved[i] = "none" =>
      /\ i \in UseCases /\ "analysis" \in selected
      /\ request.targets = {} \/ i \in request.targets
      /\ status = "completed" => i \notin listed

\* What a completed run shows is final: no task is left that could still write
\* into its snapshot.
SettledWhenCompleted ==
  [][ status = "completed" => UNCHANGED <<saved, selected, artifacts>> ]_vars

\* The pipeline ends, and so does all it has started: no task goes on for ever,
\* unless the process is gone.
NothingRunsOn ==
  (main = "extracting" \/ Running # {}) ~> ((main = "over" /\ Running = {}) \/ ~up)

\* What parallel-generation.test.ts says of a cancelled run: it is runStagePipeline
\* that rejects, for its caller to handle, and not a task that nobody awaits.
CancelRejectsThePipeline == ~up => main = "over"
=============================================================================
