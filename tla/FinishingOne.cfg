CONSTANTS
  Boards <- MCBoards
  Drifts <- MCDrifts
  RawWords <- MCRawWords
  Effects <- MCEffects
  Rhythms <- MCRhythms
  Answers <- MCAnswers
  BurnCaptions = TRUE
  MusicLibrary = FALSE
SPECIFICATION FairSpec
INVARIANTS TypeOK CutIsSmall RefusedForReason CaptionUnderItsClip LinesFitFilm
PROPERTY FinishingEnds
CHECK_DEADLOCK FALSE
