CONSTANTS
  Boards <- MCBoards
  Drifts <- MCDrifts
  RawWords <- MCRawWords
  Effects <- MCEffects
  Rhythms <- MCRhythms
  Answers <- MCAnswers
  BurnCaptions = TRUE
  MusicLibrary = TRUE
SPECIFICATION Spec
INVARIANT SummaryTellsTruth
CHECK_DEADLOCK FALSE
