SPECIFICATION Spec
CONSTANTS
  doc1 = doc1
  doc2 = doc2
  doc3 = doc3
  fea1 = fea1
  fea2 = fea2
  c1 = c1
  c2 = c2
  s1 = s1
  NoRun = NoRun
  Runs = {doc1, doc2}
  FreshRuns = {doc1}
  Cancels = {c1}
  Streams = {s1}
  Kind <- MCKind
  MaxRepairs = 1
INVARIANTS OneOutcome StreamsAgree CompletedHasArtifacts FairPrice
PROPERTIES KeepsSafe
CHECK_DEADLOCK FALSE
