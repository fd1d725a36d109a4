SPECIFICATION Spec
CONSTANTS
  a1 = a1 a2 = a2 a3 = a3 b1 = b1 da = da db = db dx = dx
  s1 = s1 s2 = s2 s3 = s3 s4 = s4 w1 = w1 w2 = w2
  Chunk = {a1, a2, a3, b1}
  Doc = {da, db, dx}
  Sentence = {s1, s2, s3, s4}
  Terms = {w1, w2}
  DocOf <- MCDocOf
  Corpus <- MCCorpus
  Sig <- MCSig
  Has <- MCHas
  Sents <- MCSents
  Words <- MCWords
  Gist <- MCGist
  Hit <- MCHit
  Numeric = {s3}
  Columns <- MCColumns
  ColWords = 40
  TopK = 2
  TopRerank = 2
  Budget = 256
  MinScore = 1500
  MaxHops = 2
  Scopes <- MCScopes
  Raws = {300, 1000, 6000}
  Rests = {1000, 30000}
  Tails = {600, 9000}
INVARIANTS ScopeHolds AnswersAreGrounded EvidenceFits QuestionKept
PROPERTY TurnsEnd
