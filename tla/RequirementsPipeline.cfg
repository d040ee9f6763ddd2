SPECIFICATION FairSpec
CONSTANTS
  Others = {"activity"}
  UseCases = {u1, u2}
  Stored = {"usecase", u1}
  Concurrency = 1
INVARIANTS EveryDiagramAnswered GivenModelsKept
PROPERTIES SettledWhenCompleted NothingRunsOn
CHECK_DEADLOCK FALSE
