SPECIFICATION IngestSpec
CONSTANTS
  MaxTokens = 40
  Overlap = 8
  Slack = 1
  TextCrumb = 6
  BlockCrumb = 5
  Label = 1
  RowFloor = 20
  Brief = 2
  Middle = 3
  Long = 4
  Documents <- MCDocuments
  Overrides = {"fast_text"}
  DoclingDefault = TRUE
CHECK_DEADLOCK FALSE
INVARIANTS
  TextIsKept
  OnePage
  HeadingsAreCurrent
  ChunksFit
