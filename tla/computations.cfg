SPECIFICATION Spec
CONSTANTS
  Alphabet = {"<", "/", "t", "x"}
  OpenTag <- MCOpenTag
  CloseTag <- MCCloseTag
  QueryLabel <- MCQueryLabel
  Separator = 2
  Ellipsis = 4
  FactsHeader = 2
  ExcerptsHeader = 3
  CharsPerToken = 3
  PromptHeadroom = 4
  CtxHeadroom = 2
  MinContext = 6
  Oversample = 2
  Unit = 12
  ChunkAllowance = 4
  PromptOverhead = 5
  Percentile = 95
  NeedleSize = 3
  NeedleStride = 2
  TrigramMinWords = 4
  Messages <- MCMessages
  DayOf <- MCDayOf
  MaxChars = 2
  Windows <- MCWindows
  Bound <- MCBound
  Pieces <- MCPieces
  Histories <- MCHistories
  Condensings <- MCCondensings
  Excerpts <- MCExcerpts
  Facts <- MCFacts
  Budgets <- MCBudgets
  Frame = 2
  Prompts <- MCPrompts
  Levels <- MCLevels
  Distances <- MCDistances
  BatchSizes <- MCBatchSizes
  Words <- MCWords
INVARIANTS TranscriptsHold StreamedAsWhole GroundingFits RetrievalHonest TextsKept FilesAreRead EvaluationHonest
PROPERTIES TailGrowthKeepsDocs
CHECK_DEADLOCK FALSE
