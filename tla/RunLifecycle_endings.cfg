SPECIFICATION FairSpec
CONSTANTS
  doc1 = doc1
  doc2 = doc2
  doc3 = doc3
  fea1 = fea1
  fea2 = fea2
  c1 = c1
  c2 = c2
  s1 = s1
  NoRun = NoRun
  Runs = {fea1}
  FreshRuns = {fea1}
  Cancels = {c1, c2}
  Streams = {s1}
  Kind <- MCKind
  MaxRepairs = 2
PROPERTIES ClosedForGood KeepsPromise EveryReservationSettles EveryStreamCloses
CHECK_DEADLOCK FALSE
