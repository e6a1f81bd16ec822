\* Two questions, answers of up to two tokens, cut by the network anywhere.
SPECIFICATION FairSpec
CONSTANTS
  Asks = {a1, a2}
  NoAsk = NoAsk
  MaxTokens = 2
INVARIANTS TypeOK ShowsAPrefix EndIsShown RefusalNoticeIsTrue OneUnlessLate
CHECK_DEADLOCK FALSE
PROPERTY TurnsSettle
