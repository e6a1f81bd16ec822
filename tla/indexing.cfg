\* Every document of up to four of the pages of MCIndexing, embedded in batches
\* of two with one answer that may be short.
SPECIFICATION Spec
CONSTANTS
  Inputs <- Documents
  Shapes <- PageShapes
  Digits = {0, 1, 2}
  MarginLines = 1
  MinPages = 4
  NoShape = NoShape
  TargetTokens = 4
  MaxTokens = 6
  MinTokens = 2
  OverlapTokens = 2
  BatchSize = 2
INVARIANTS TypeOK NothingLost BreadcrumbOfText PageOfText BodyBounded VectorsMatch MidPageKept
CHECK_DEADLOCK FALSE
