SPECIFICATION Spec
CONSTANTS
  Runs <- MCRuns
  Users = {u1}
  ReqDiagrams = {q1}
  DesignDiagrams = {g1}
  Inputs = {i1}
  NoInput = NoInput
  Unruled = Unruled
  Nobody = Nobody
  Edited = Edited
  MaxVersion = 3
INVARIANT ConflictTakesTwoSaves
PROPERTIES  OlderNeverReplacesNewer
CHECK_DEADLOCK FALSE
