--------------------- MODULE RequirementsPipelineProofs ---------------------
(***************************************************************************)
(* Theorems about RequirementsPipeline, for all diagrams, use cases and    *)
(* sizes of the pool.                                                      *)
(***************************************************************************)
EXTENDS RequirementsPipeline, TLAPS

\* Nothing is drawn before the tasks start.
Begun ==
  main \in {"start", "extracting"} =>
    svgs = {} /\ errors = {} /\ \A i \in Ids : task[i] = "idle"

\* A plain diagram has an SVG or an error once its task has answered.
Answered ==
  \A d \in Diagrams :
    /\ task[d] = "done" => (d \in svgs) # (d \in errors)
    /\ task[d] = "failed" => d \in errors /\ d \notin svgs
    /\ task[d] \in {"idle", "generating", "compact", "rendering"} =>
         d \notin svgs /\ d \notin errors

\* Every selected plain diagram has a task once the tasks have started.
Asked ==
  main \in {"usecase", "noUseCases", "analysis", "rest"} =>
    \A d \in selected \ {"analysis"} : task[d] # "idle"

\* Only the use cases in question go through the pool, when the use case model is
\* final; the pipeline goes on when all have their model.
Pool ==
  /\ main \in {"start", "extracting", "usecase", "noUseCases"} =>
       \A u \in UseCases : task[u] = "idle"
  /\ main \in {"usecase", "analysis"} => "analysis" \in selected
  /\ main = "analysis" => \A u \in UseCases \ analysisUseCases : task[u] = "idle"
  /\ main = "rest" => \A u \in UseCases : task[u] \in {"idle", "done"}
  /\ main = "rest" /\ "analysis" \in selected =>
       \A u \in analysisUseCases : task[u] = "done"
  /\ main \in {"analysis", "rest"} /\ "analysis" \in selected =>
       task["usecase"] \in {"idle", "done", "failed"}

\* A use case that is done has its model.
Made ==
  \A u \in UseCases :
    task[u] \in {"rendering", "done"} => models[u] = "made" /\ u \in plantUml

\* Nothing is under way or unanswered when the run completes.
Finished ==
  status = "completed" =>
    /\ main = "over" /\ saved = models
    /\ \A i \in Ids : task[i] \in {"idle", "done", "failed"}
    /\ \A d \in selected \ {"analysis"} : task[d] # "idle"
    /\ "analysis" \in selected => \A u \in analysisUseCases : task[u] = "done"

\* Models that were given are dropped only to be made again.
Kept ==
  \A i \in request.given :
    models[i] = "none" \/ saved[i] = "none" =>
      /\ i \in UseCases /\ "analysis" \in selected
      /\ request.targets = {} \/ i \in request.targets

IInv ==
  TypeOK /\ Begun /\ Answered /\ Asked /\ Pool /\ Made /\ Finished /\ Kept

\* The pipeline ends by an exception.
Throwing ==
  /\ main # "over" /\ Throws
  /\ saved' \in {saved, models}

\* The pipeline begins with the rules.
Extracting ==
  /\ main = "start" /\ ~Closed /\ main' = "extracting" /\ status' = "running"
  /\ UNCHANGED <<request, selected, models, saved, listed, artifacts, task,
                 round, handled, up>>

-----------------------------------------------------------------------------
\* The kinds do not meet.
LEMMA Kinds ==
  /\ \A u \in UseCases : u \notin Diagrams /\ u # "analysis" /\ kind(u) = "analysis"
  /\ \A d \in Diagrams : d \notin UseCases /\ d # "analysis" /\ kind(d) = d
  /\ "usecase" \in Diagrams /\ Ids = Diagrams \cup UseCases
  /\ \A i \in Ids : kind(i) \in Diagrams \cup {"analysis"}
BY KindsAssumption DEF kind, Diagrams, Ids

LEMMA InitInv == Init => IInv
<1> SUFFICES ASSUME Init PROVE IInv
  OBVIOUS
<1>1. TypeOK
  BY DEF Init, TypeOK
<1>2. Begun /\ Answered /\ Asked /\ Pool /\ Made /\ Finished
  BY Kinds DEF Init, Begun, Answered, Asked, Pool, Made, Finished
<1>3. Kept
  BY KindsAssumption DEF Init, Kept, Ids, Diagrams
<1> QED BY <1>1, <1>2, <1>3 DEF IInv

\* A task that throws for a closed run.
LEMMA RejectsEnds ==
  \A i \in Ids : Rejects(i) => up' \in BOOLEAN /\ task' = [task EXCEPT ![i] = "rejected"]
BY DEF Rejects

\* A model comes.
LEMMA GeneratedStep ==
  ASSUME IInv, NEW i \in Ids, Generated(i)
  PROVE  IInv'
<1> USE Kinds, RejectsEnds DEF IInv, TypeOK, artifacts, Generated
<1>1. TypeOK'
  OBVIOUS
<1>2. Begun'
  BY DEF Begun
<1>3. Answered'
  BY DEF Answered
<1>4. Asked'
  BY DEF Asked
<1>5. Pool'
  BY DEF Pool, analysisUseCases
<1>6. Made'
  BY DEF Made
<1>7. Finished'
  BY DEF Finished, analysisUseCases
<1>8. Kept'
  BY DEF Kept
<1> QED BY <1>1, <1>2, <1>3, <1>4, <1>5, <1>6, <1>7, <1>8

\* A task asks again.
LEMMA TimesOutStep ==
  ASSUME IInv, NEW i \in Ids, TimesOut(i)
  PROVE  IInv'
<1> USE Kinds DEF IInv, TypeOK, artifacts, TimesOut
<1>1. TypeOK'
  OBVIOUS
<1>2. Begun'
  BY DEF Begun
<1>3. Answered'
  BY DEF Answered
<1>4. Asked'
  BY DEF Asked
<1>5. Pool'
  BY DEF Pool, analysisUseCases
<1>6. Made'
  BY DEF Made
<1>7. Finished'
  BY DEF Finished, analysisUseCases
<1>8. Kept'
  BY DEF Kept
<1> QED BY <1>1, <1>2, <1>3, <1>4, <1>5, <1>6, <1>7, <1>8

\* A generation fails.
LEMMA GenerationFailsStep ==
  ASSUME IInv, NEW i \in Ids, GenerationFails(i)
  PROVE  IInv'
<1> USE Kinds, RejectsEnds DEF IInv, TypeOK, artifacts, GenerationFails, Fails
<1>1. TypeOK'
  OBVIOUS
<1>2. Begun'
  BY DEF Begun
<1>3. Answered'
  BY DEF Answered
<1>4. Asked'
  BY DEF Asked
<1>5. Pool'
  BY DEF Pool, analysisUseCases
<1>6. Made'
  BY DEF Made
<1>7. Finished'
  BY DEF Finished, analysisUseCases
<1>8. Kept'
  BY DEF Kept
<1> QED BY <1>1, <1>2, <1>3, <1>4, <1>5, <1>6, <1>7, <1>8

\* A rendering ends.
LEMMA RenderEndsStep ==
  ASSUME IInv, NEW i \in Ids, RenderEnds(i)
  PROVE  IInv'
<1> USE Kinds, RejectsEnds DEF IInv, TypeOK, artifacts, RenderEnds, Fails
<1>1. TypeOK'
  OBVIOUS
<1>2. Begun'
  BY DEF Begun
<1>3. Answered'
  BY DEF Answered
<1>4. Asked'
  BY DEF Asked
<1>5. Pool'
  BY DEF Pool, analysisUseCases
<1>6. Made'
  BY DEF Made
<1>7. Finished'
  BY DEF Finished, analysisUseCases
<1>8. Kept'
  BY DEF Kept
<1> QED BY <1>1, <1>2, <1>3, <1>4, <1>5, <1>6, <1>7, <1>8

\* A worker takes a use case.
LEMMA PicksUpStep ==
  ASSUME IInv, NEW u \in UseCases, PicksUp(u)
  PROVE  IInv'
<1> USE Kinds DEF IInv, TypeOK, artifacts, PicksUp
<1>1. TypeOK'
  OBVIOUS
<1>2. Begun'
  BY DEF Begun
<1>3. Answered'
  BY DEF Answered
<1>4. Asked'
  BY DEF Asked
<1>5. Pool'
  BY DEF Pool, analysisUseCases
<1>6. Made'
  BY DEF Made
<1>7. Finished'
  BY DEF Finished, analysisUseCases
<1>8. Kept'
  BY DEF Kept
<1> QED BY <1>1, <1>2, <1>3, <1>4, <1>5, <1>6, <1>7, <1>8

\* The tasks of the plain diagrams start.
LEMMA StartsTasksStep ==
  ASSUME IInv, main \in {"start", "extracting"}, ~Closed, StartsTasks
  PROVE  IInv'
<1> USE Kinds DEF IInv, TypeOK, artifacts, StartsTasks, prerequisiteDiagrams, Closed
<1>1. TypeOK'
  OBVIOUS
<1>2. Begun'
  BY DEF Begun
<1>3. Answered'
  BY DEF Answered, Begun
<1>4. Asked'
  BY DEF Asked
<1>5. Pool'
  BY DEF Pool, analysisUseCases
<1>6. Made'
  BY DEF Made
<1>7. Finished'
  BY DEF Finished, analysisUseCases
<1>8. Kept'
  BY DEF Kept
<1> QED BY <1>1, <1>2, <1>3, <1>4, <1>5, <1>6, <1>7, <1>8

\* The pipeline throws.
LEMMA ThrowingStep ==
  ASSUME IInv, Throwing
  PROVE  IInv'
<1> USE Kinds DEF IInv, TypeOK, artifacts, Throwing, Throws, Closed
<1>1. TypeOK'
  OBVIOUS
<1>2. Begun'
  BY DEF Begun
<1>3. Answered'
  BY DEF Answered
<1>4. Asked'
  BY DEF Asked
<1>5. Pool'
  BY DEF Pool, analysisUseCases
<1>6. Made'
  BY DEF Made
<1>7. Finished'
  BY DEF Finished, analysisUseCases
<1>8. Kept'
  BY DEF Kept
<1> QED BY <1>1, <1>2, <1>3, <1>4, <1>5, <1>6, <1>7, <1>8

\* Rules are extracted.
LEMMA ExtractingStep ==
  ASSUME IInv, Extracting
  PROVE  IInv'
<1> USE Kinds DEF IInv, TypeOK, artifacts, Extracting, Closed
<1>1. TypeOK'
  OBVIOUS
<1>2. Begun'
  BY DEF Begun
<1>3. Answered'
  BY DEF Answered
<1>4. Asked'
  BY DEF Asked
<1>5. Pool'
  BY DEF Pool, analysisUseCases
<1>6. Made'
  BY DEF Made
<1>7. Finished'
  BY DEF Finished, analysisUseCases
<1>8. Kept'
  BY DEF Kept
<1> QED BY <1>1, <1>2, <1>3, <1>4, <1>5, <1>6, <1>7, <1>8

\* The pool starts.
LEMMA StartsAnalysisStep ==
  ASSUME IInv, StartsAnalysis
  PROVE  IInv'
<1> USE Kinds DEF IInv, TypeOK, artifacts, StartsAnalysis, withoutTargets, analysisUseCases, Closed
<1>1. TypeOK'
  OBVIOUS
<1>2. Begun'
  BY DEF Begun
<1>3. Answered'
  BY DEF Answered
<1>4. Asked'
  BY DEF Asked
<1>5. Pool'
  BY DEF Pool
<1>6. Made'
  BY DEF Made, Pool
<1>7. Finished'
  BY DEF Finished
<1>8. Kept'
  <2>1. "analysis" \in selected
    BY DEF Pool
  <2> SUFFICES ASSUME NEW i \in request.given, models'[i] = "none" \/ saved[i] = "none"
               PROVE  /\ i \in UseCases
                      /\ request.targets = {} \/ i \in request.targets
    BY <2>1 DEF Kept
  <2>2. i \in Ids
    BY KindsAssumption DEF Diagrams
  <2>3. models[i] = "none" \/ saved[i] = "none" \/ models'[i] # models[i]
    OBVIOUS
  <2> QED BY <2>2, <2>3 DEF Kept
<1> QED BY <1>1, <1>2, <1>3, <1>4, <1>5, <1>6, <1>7, <1>8

\* There is no use case model.
LEMMA LacksUseCasesStep ==
  ASSUME IInv, LacksUseCases
  PROVE  IInv'
<1> USE Kinds DEF IInv, TypeOK, artifacts, LacksUseCases, Prerequisites, Closed
<1>1. TypeOK'
  OBVIOUS
<1>2. Begun'
  BY DEF Begun
<1>3. Answered'
  BY DEF Answered
<1>4. Asked'
  BY DEF Asked
<1>5. Pool'
  BY DEF Pool, analysisUseCases
<1>6. Made'
  BY DEF Made
<1>7. Finished'
  BY DEF Finished, analysisUseCases
<1>8. Kept'
  BY DEF Kept
<1> QED BY <1>1, <1>2, <1>3, <1>4, <1>5, <1>6, <1>7, <1>8

\* Use cases go through the pool again.
LEMMA RetriesMissingStep ==
  ASSUME IInv, RetriesMissing
  PROVE  IInv'
<1> USE Kinds DEF IInv, TypeOK, artifacts, RetriesMissing, missingUseCases, analysisUseCases, Settled
<1>1. TypeOK'
  OBVIOUS
<1>2. Begun'
  BY DEF Begun
<1>3. Answered'
  BY DEF Answered
<1>4. Asked'
  BY DEF Asked
<1>5. Pool'
  BY DEF Pool
<1>6. Made'
  BY DEF Made
<1>7. Finished'
  BY DEF Finished
<1>8. Kept'
  BY DEF Kept
<1> QED BY <1>1, <1>2, <1>3, <1>4, <1>5, <1>6, <1>7, <1>8

\* The analysis models are complete.
LEMMA AnalysisDoneStep ==
  ASSUME IInv, AnalysisDone
  PROVE  IInv'
<1> USE Kinds DEF IInv, TypeOK, artifacts, AnalysisDone, missingUseCases, covered, Prerequisites
<1>1. TypeOK'
  OBVIOUS
<1>2. Begun'
  BY DEF Begun
<1>3. Answered'
  BY DEF Answered
<1>4. Asked'
  BY DEF Asked
<1>5. Pool'
  BY DEF Pool, analysisUseCases
<1>6. Made'
  BY DEF Made
<1>7. Finished'
  BY DEF Finished, analysisUseCases
<1>8. Kept'
  BY DEF Kept
<1> QED BY <1>1, <1>2, <1>3, <1>4, <1>5, <1>6, <1>7, <1>8

\* The run completes.
LEMMA CompletesStep ==
  ASSUME IInv, Completes
  PROVE  IInv'
<1> USE Kinds DEF IInv, TypeOK, artifacts, Completes, RestSettled, Settled, Prerequisites
<1>1. TypeOK'
  OBVIOUS
<1>2. Begun'
  BY DEF Begun
<1>3. Answered'
  BY DEF Answered
<1>4. Asked'
  BY DEF Asked
<1>5. Pool'
  BY DEF Pool, analysisUseCases
<1>6. Made'
  BY DEF Made
<1>7. Finished'
  BY DEF Finished, analysisUseCases, Pool, Asked
<1>8. Kept'
  BY DEF Kept
<1> QED BY <1>1, <1>2, <1>3, <1>4, <1>5, <1>6, <1>7, <1>8

\* The run is cancelled.
LEMMA CancelledStep ==
  ASSUME IInv, Cancelled
  PROVE  IInv'
<1> USE Kinds DEF IInv, TypeOK, artifacts, Cancelled, Closed
<1>1. TypeOK'
  OBVIOUS
<1>2. Begun'
  BY DEF Begun
<1>3. Answered'
  BY DEF Answered
<1>4. Asked'
  BY DEF Asked
<1>5. Pool'
  BY DEF Pool, analysisUseCases
<1>6. Made'
  BY DEF Made
<1>7. Finished'
  BY DEF Finished, analysisUseCases
<1>8. Kept'
  BY DEF Kept
<1> QED BY <1>1, <1>2, <1>3, <1>4, <1>5, <1>6, <1>7, <1>8

-----------------------------------------------------------------------------
\* Every step of the pipeline itself is one of those above.
LEMMA PipelineStep == ASSUME IInv, Pipeline PROVE IInv'
<1>1. CASE Starts
  <2>1. Throwing \/ Extracting \/ (main = "start" /\ ~Closed /\ StartsTasks)
    BY <1>1 DEF Starts, Throwing, Extracting, Throws
  <2> QED BY <2>1, ThrowingStep, ExtractingStep, StartsTasksStep
<1>2. CASE Extracted
  <2>1. Throwing \/ (main = "extracting" /\ ~Closed /\ StartsTasks)
    BY <1>2 DEF Extracted, Throwing
  <2> QED BY <2>1, ThrowingStep, StartsTasksStep
<1>3. CASE Analysis
  BY <1>3, StartsAnalysisStep, LacksUseCasesStep, RetriesMissingStep, AnalysisDoneStep
     DEF Analysis
<1>4. CASE Completes
  BY <1>4, CompletesStep
<1>5. CASE UseCaseThrows \/ NoUseCasesThrows \/ AnalysisThrows \/ RestThrows
  <2>1. Throwing
    BY <1>5 DEF Throwing, UseCaseThrows, NoUseCasesThrows, AnalysisThrows, RestThrows
  <2> QED BY <2>1, ThrowingStep
<1> QED BY <1>1, <1>2, <1>3, <1>4, <1>5 DEF Pipeline

LEMMA StepInv == IInv /\ [Next]_vars => IInv'
<1> SUFFICES ASSUME IInv, [Next]_vars PROVE IInv'
  OBVIOUS
<1>1. CASE Pipeline
  BY <1>1, PipelineStep
<1>2. CASE Cancelled
  BY <1>2, CancelledStep
<1>3. ASSUME NEW i \in Ids, Task(i) PROVE IInv'
  BY <1>3, GeneratedStep, TimesOutStep, GenerationFailsStep, RenderEndsStep DEF Task
<1>4. ASSUME NEW u \in UseCases, PicksUp(u) PROVE IInv'
  BY <1>4, PicksUpStep
<1>5. CASE UNCHANGED vars
  BY <1>5 DEF vars, artifacts, IInv, TypeOK, Begun, Answered, Asked, Pool, Made,
              Finished, Kept, analysisUseCases
<1> QED BY <1>1, <1>2, <1>3, <1>4, <1>5 DEF Next

\* The inductive invariant holds in every reachable state.
THEOREM Invariant == Spec => []IInv
BY InitInv, StepInv, PTL DEF Spec

-----------------------------------------------------------------------------
(***************************************************************************)
(* The theorems.                                                           *)
(***************************************************************************)
\* The variables keep their types, for any diagrams, use cases and requests.
THEOREM TypeCorrect == Spec => []TypeOK
<1>1. IInv => TypeOK
  BY DEF IInv
<1> QED BY <1>1, Invariant, PTL

\* A completed run has drawn or told of every plain diagram, and has an analysis
\* model of every use case in question, however its tasks interleaved, timed out,
\* failed and were tried again.
THEOREM EveryDiagramAlwaysAnswered == Spec => []EveryDiagramAnswered
<1>1. IInv => EveryDiagramAnswered
  <2> SUFFICES ASSUME IInv, status = "completed"
               PROVE  /\ \A d \in selected \ {"analysis"} : (d \in svgs) # (d \in errors)
                      /\ "analysis" \in selected =>
                           \A u \in analysisUseCases : saved[u] = "made" /\ u \in plantUml
    BY DEF EveryDiagramAnswered
  <2>1. ASSUME NEW d \in selected \ {"analysis"} PROVE (d \in svgs) # (d \in errors)
    BY <2>1, Kinds DEF IInv, TypeOK, Finished, Answered
  <2>2. ASSUME "analysis" \in selected, NEW u \in analysisUseCases
        PROVE  saved[u] = "made" /\ u \in plantUml
    BY <2>2 DEF IInv, TypeOK, Finished, Made, analysisUseCases
  <2> QED BY <2>1, <2>2
<1> QED BY <1>1, Invariant, PTL

\* No model a run was given is lost, however it ends, but for analysis models that
\* were to be made again.
THEOREM GivenModelsAlwaysKept == Spec => []GivenModelsKept
<1>1. IInv => GivenModelsKept
  BY Kinds DEF IInv, TypeOK, Kept, Finished, Made, GivenModelsKept, analysisUseCases
<1> QED BY <1>1, Invariant, PTL

\* Nothing writes into the snapshot of a completed run: its tasks are over.
THEOREM AlwaysSettledWhenCompleted == Spec => SettledWhenCompleted
<1>1. ASSUME IInv, Next, status = "completed" PROVE UNCHANGED <<saved, selected, artifacts>>
  <2>1. ~Pipeline /\ ~Cancelled
    BY <1>1 DEF IInv, Finished, Closed, Pipeline, Starts, Extracted, Analysis, Completes,
       UseCaseThrows, NoUseCasesThrows, AnalysisThrows, RestThrows, StartsAnalysis,
       LacksUseCases, RetriesMissing, AnalysisDone, Cancelled
  <2>2. \A i \in Ids : ~Task(i)
    BY <1>1 DEF IInv, Finished, Task, Generated, TimesOut, GenerationFails, RenderEnds
  <2>3. \A u \in UseCases : ~PicksUp(u)
    BY <1>1, Kinds DEF IInv, Finished, PicksUp
  <2> QED BY <1>1, <2>1, <2>2, <2>3 DEF Next
<1>2. IInv /\ [Next]_vars =>
        [status = "completed" => UNCHANGED <<saved, selected, artifacts>>]_vars
  BY <1>1
<1> QED BY <1>2, Invariant, PTL DEF Spec, SettledWhenCompleted
=============================================================================
