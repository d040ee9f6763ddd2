SPECIFICATION Spec
CONSTANTS
  Others = {"class"}
  UseCases = {u1}
  Stored = {}
  Concurrency = 1
INVARIANT CancelRejectsThePipeline
CHECK_DEADLOCK FALSE
