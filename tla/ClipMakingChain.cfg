CONSTANTS
  MaxLen = 2400
  Texts <- MCTexts
  Clips = 3
  HasCamera = TRUE
  HasReference = TRUE
  Cameras <- MCCameras
  Prompts <- MCPrompts
  Anchors <- MCAnchors
  Notes <- MCNotes
  StyleSuffix <- MCStyle
SPECIFICATION FairSpec
INVARIANTS TypeOK PaidOnce ChainKept CameraAsDirected PromptFits
PROPERTY SequenceEnds
CHECK_DEADLOCK FALSE
