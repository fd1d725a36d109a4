SPECIFICATION GraphSpec
CONSTANTS
  k1 = k1 k2 = k2 d1 = d1 d2 = d2
  Names = {1, 2, 3}
  Chunk = {k1, k2}
  Doc = {d1, d2}
  DocOf <- MCDocOf
  Sentences <- MCSentences
  Assoc = "associated_with"
  Plain = {"uses"}
  MaxRelations = 3
  Routes = {g1}
  Workers = {w1}
  Torn = Torn
  None = None
  Questions <- MCQuestions
  MaxCalls = 3
  MaxReloads = 1
  MaxFaults = 1
INVARIANTS ProvenanceIsReal EvidenceIsKept AnswersStayInScope
CHECK_DEADLOCK FALSE
